---- MODULE Spec2Model ----
(***************************************************************************)
(* Client side of the Qubes PDF converter (qubespdfconverter/client.py):   *)
(* one sanitization job (Job.run) with its upload and page-count tasks,    *)
(* the page pipeline (BaseFile.sanitize, _publish, _consume, _save_reps),  *)
(* the per-page conversion tasks (Representation.convert), the transport   *)
(* child, the files the job touches, and SIGINT cancellation.              *)
(*                                                                         *)
(* The server is untrusted: whatever a read of the transport returns is    *)
(* chosen by the environment.  Bytes are modelled as one-character         *)
(* strings, a received line as a sequence of bytes.                        *)
(***************************************************************************)
EXTENDS Integers, Sequences, FiniteSets, TLC

(***************************************************************************)
(* Program constants (client.py:40-43).                                    *)
(***************************************************************************)
MAX_PAGES == 10000

MAX_IMG_WIDTH == 10000

MAX_IMG_HEIGHT == 10000

DEPTH == 8

(***************************************************************************)
(* Bounds of the model.  MaxPages caps the page loop of _publish/_consume  *)
(* (a page count above it is accepted as the code accepts it, but pages    *)
(* beyond MaxPages are not explored); MaxBatch is the largest --batch.     *)
(***************************************************************************)
MaxPages == 3

MaxBatch == 2

(***************************************************************************)
(* Bytes and text.                                                         *)
(***************************************************************************)
NONASCII == "0x80"

Digits == {"0", "1", "2", "3", "4", "5", "6", "7", "8", "9"}

\* str.rstrip() / the whitespace int() strips
Whitespace == {" ", "\n", "\t", "\r"}

DigitVal(c) ==
    CASE c = "0" -> 0 [] c = "1" -> 1 [] c = "2" -> 2 [] c = "3" -> 3
      [] c = "4" -> 4 [] c = "5" -> 5 [] c = "6" -> 6 [] c = "7" -> 7
      [] c = "8" -> 8 [] c = "9" -> 9

RECURSIVE rstrip(_)
rstrip(s) ==
    IF s # << >> /\ s[Len(s)] \in Whitespace
    THEN rstrip(SubSeq(s, 1, Len(s) - 1))
    ELSE s

RECURSIVE lstrip(_)
lstrip(s) ==
    IF s # << >> /\ s[1] \in Whitespace THEN lstrip(Tail(s)) ELSE s

\* Outcome of a call that returns a value or raises.
Ok(v) == [ok |-> TRUE, val |-> v, err |-> "none"]

Raise(e) == [ok |-> FALSE, val |-> 0, err |-> e]

(***************************************************************************)
(* Python's int(str): surrounding whitespace is stripped, one optional     *)
(* sign, then decimal digits in which single underscores may separate      *)
(* digits.  Anything else raises ValueError.                               *)
(***************************************************************************)
RECURSIVE DigitsValue(_, _)
DigitsValue(s, acc) ==
    IF s = << >> THEN acc
    ELSE IF s[1] = "_" THEN DigitsValue(Tail(s), acc)
    ELSE DigitsValue(Tail(s), acc * 10 + DigitVal(s[1]))

WellFormedDigits(s) ==
    /\ s # << >>
    /\ \A i \in 1..Len(s) : s[i] \in Digits \cup {"_"}
    /\ s[1] # "_"
    /\ s[Len(s)] # "_"
    /\ \A i \in 1..(Len(s) - 1) : ~(s[i] = "_" /\ s[i + 1] = "_")

\* parse[str] rather than a LET over str: the argument is evaluated once,
\* as the caller's argument is, before the string is scanned.
int(str) ==
    LET parse[s \in {str}] ==
          LET t    == rstrip(lstrip(s))
              neg  == t # << >> /\ t[1] = "-"
              body == IF t # << >> /\ t[1] \in {"+", "-"} THEN Tail(t) ELSE t
          IN  IF WellFormedDigits(body)
              THEN Ok(IF neg THEN 0 - DigitsValue(body, 0) ELSE DigitsValue(body, 0))
              ELSE Raise("ValueError")
    IN  parse[str]

\* str.split(" ", 1): at most one split, at the first space.
RECURSIVE FirstSpace(_, _)
FirstSpace(s, i) ==
    IF i > Len(s) THEN 0
    ELSE IF s[i] = " " THEN i
    ELSE FirstSpace(s, i + 1)

split1(s) ==
    LET i == FirstSpace(s, 1)
    IN  IF i = 0 THEN << s >>
        ELSE << SubSeq(s, 1, i - 1), SubSeq(s, i + 1, Len(s)) >>

(***************************************************************************)
(* recvline (client.py:181-186).  data is what StreamReader.readline()     *)
(* returned: the bytes up to and including the first newline, or, at end   *)
(* of stream, the bytes that were left (possibly none).                    *)
(***************************************************************************)
recvline(data) ==
    IF data = << >> THEN Raise("EOFError")
    ELSE IF \E i \in 1..Len(data) : data[i] = NONASCII THEN Raise("UnicodeError")
    ELSE Ok(rstrip(data))


(***************************************************************************)
(* What the server may put on the wire where a line is expected.  Each     *)
(* element is one possible return value of readline().                     *)
(***************************************************************************)
RECURSIVE Decimal(_)
Decimal(n) ==
    LET d == CASE n % 10 = 0 -> "0" [] n % 10 = 1 -> "1" [] n % 10 = 2 -> "2"
               [] n % 10 = 3 -> "3" [] n % 10 = 4 -> "4" [] n % 10 = 5 -> "5"
               [] n % 10 = 6 -> "6" [] n % 10 = 7 -> "7" [] n % 10 = 8 -> "8"
               [] n % 10 = 9 -> "9"
    IN  IF n < 10 THEN << d >> ELSE Decimal(n \div 10) \o << d >>

NumberLine(n) == Decimal(n) \o << "\n" >>

DimLine(w, h) == Decimal(w) \o << " " >> \o Decimal(h) \o << "\n" >>

PageLines ==
    { NumberLine(n) : n \in 0..MaxPages }
      \cup { NumberLine(MAX_PAGES), NumberLine(MAX_PAGES + 1) }
      \cup { << >>,                          \* end of stream
             << "\n" >>,                     \* empty line
             << NONASCII, "\n" >>,
             << "x", "\n" >>,
             << "-", "1", "\n" >>,
             << "2" >> }                     \* no newline, then end of stream

DimLines ==
    { DimLine(1, 1), DimLine(MAX_IMG_WIDTH, MAX_IMG_HEIGHT),
      DimLine(0, 1), DimLine(1, 0),
      DimLine(MAX_IMG_WIDTH + 1, 1), DimLine(1, MAX_IMG_HEIGHT + 1),
      DimLine(20000, 20000) }
      \cup { << >>,
             << "\n" >>,
             << NONASCII, "\n" >>,
             << "1", "\n" >>,                \* one number only
             << "1", " ", "x", "\n" >>,
             << "-", "1", " ", "1", "\n" >>,
             << "+", "1", " ", " ", "1", "\n" >>,
             << "1", " ", "1" >> }

(***************************************************************************)
(* Job._pagenums (client.py:560-572), as a function of what readline()     *)
(* returned.                                                               *)
(***************************************************************************)
\* mutant: the upper bound is exclusive
ValidPagenums_exclusive(untrusted_pagenums) ==
    1 <= untrusted_pagenums /\ untrusted_pagenums < MAX_PAGES

ValidPagenums(untrusted_pagenums) ==
    1 <= untrusted_pagenums /\ untrusted_pagenums <= MAX_PAGES

Job_pagenums(data) ==
    LET line      == recvline(data)
        untrusted == IF line.ok THEN int(line.val) ELSE Raise(line.err)
        check[n \in {untrusted}] ==
            IF ~n.ok THEN Raise("QrexecError")
            ELSE IF ValidPagenums(n.val) THEN Ok(n.val)
            ELSE Raise("PageError")
    IN  check[untrusted]

(***************************************************************************)
(* Representation._dim (client.py:283-296) and the first try block of      *)
(* Representation.receive (client.py:264-269).                             *)
(***************************************************************************)
ImageDimensions(width, height, size) ==
    [width |-> width, height |-> height, size |-> size, depth |-> DEPTH]

NoDim == [width |-> 0, height |-> 0, size |-> 0, depth |-> 0]

\* map(int, line.split(" ", 1)) unpacked into two names
UntrustedDims(line) ==
    LET unpack[parts \in {split1(line)}] ==
          LET w == int(parts[1])
              h == IF Len(parts) = 2 THEN int(parts[2]) ELSE Raise("ValueError")
          IN  IF w.ok /\ h.ok
              THEN [ok |-> TRUE, w |-> w.val, h |-> h.val, err |-> "none"]
              ELSE [ok |-> FALSE, w |-> 0, h |-> 0, err |-> "ValueError"]
    IN  unpack[split1(line)]

\* mutant: the lower bounds admit 0
ValidDims_zero(untrusted_w, untrusted_h) ==
    /\ 0 <= untrusted_w /\ untrusted_w <= MAX_IMG_WIDTH
    /\ 0 <= untrusted_h /\ untrusted_h <= MAX_IMG_HEIGHT

ValidDims(untrusted_w, untrusted_h) ==
    /\ 1 <= untrusted_w /\ untrusted_w <= MAX_IMG_WIDTH
    /\ 1 <= untrusted_h /\ untrusted_h <= MAX_IMG_HEIGHT

DimSize(width, height) == width * height * 3

Representation_dim(data) ==
    LET line      == recvline(data)
        untrusted == IF line.ok THEN UntrustedDims(line.val)
                     ELSE [ok |-> FALSE, w |-> 0, h |-> 0, err |-> line.err]
        check[u \in {untrusted}] ==
            IF ~u.ok THEN Raise(u.err)
            ELSE IF ValidDims(u.w, u.h)
                 THEN Ok(ImageDimensions(u.w, u.h, DimSize(u.w, u.h)))
            ELSE Raise("ValueError")
    IN  check[untrusted]

\* receive's except clauses around _dim
ReceiveDimError(e) ==
    IF e = "EOFError" THEN "QrexecError" ELSE "DimensionError"


(***************************************************************************)
(* State.                                                                  *)
(***************************************************************************)
VARIABLES
    params,        \* [archive, batch, in_place]: the command line (main)
    fs,            \* files outside the temporary directory, by path
    dirs,          \* directories that exist
    tmpdir,        \* the job's TemporaryDirectory exists
    rgb,           \* pages n with <tmpdir>/n.rgb present
    png,           \* pages n with <tmpdir>/n.png present
    pdf,           \* the file at Job.pdf, the temporary trusted PDF
    proc,          \* the transport child (Job.proc)
    stdin,         \* the child's stdin: "open", "written", "closed"
    runPc,         \* where Job.run stands
    result,        \* how Job.run ended: "pending", "returned", "raised", "cancelled"
    error,         \* the exception Job.run raised
    status,        \* the job status shown on the bar
    error_logs,    \* number of entries put into ERROR_LOGS
    task,          \* state of send_task, page_task, publish_task, consume_task
    exc,           \* the exception each of these tasks raised
    gatherErr,     \* first exception delivered to the gather Job.run awaits
    pagenums,      \* the accepted page count (BaseFile.pagenums)
    untrusted_pagenums, \* the integer parsed from the page count line
    page,          \* _publish: loop variable
    pages,         \* _publish: pages of the current batch
    reps,          \* dim of the Representation of each page
    untrusted,     \* _dim: untrusted_w, untrusted_h of the last dimension line
    nbytes,        \* payload bytes taken off the stream for the current page
    batch,         \* BaseFile.batch: queued entries (pages), oldest first
    unfinished,    \* the queue's count of entries without task_done()
    taken,         \* _consume: iterations completed
    batch_e,       \* _consume: the entry it holds
    conv,          \* state of each page's conversion task
    reordered,     \* some conversion finished before that of an earlier page
    sigint         \* "none", "sent" (signal delivered), "handled" (tasks cancelled)

\* The state of run() and main() for several files (client.py:581-666), and
\* the state of the server process (server.py).
VARIABLES
    jobs,          \* run: one record per file, the state of its Job.run task
    ERROR_LOGS,    \* the queue ERROR_LOGS: names of the files that put an entry
    results,       \* run: what gather returned, one entry per task
    completed,     \* run: results.count(None)
    logged,        \* run: the "error:" lines printed, in order
    exit_code,     \* main: the exit status of the process, -1 while it runs
    mainPc,        \* where main/run stands
    signals,       \* number of SIGINTs received
    handler,       \* a sigint_handler task has been scheduled and has not run
    must_cancel,   \* tasks whose cancellation was requested and is not yet delivered
    server         \* the server process: main, BaseFile, its queue and tasks

\* The paths of a run (client.py:511, 523-528, 575-578).
VARIABLES
    run_files,     \* params["files"]: the input paths, in order
    job_pdf,       \* Job.pdf of each job, NoPath until _setup sets it
    job_at,        \* where each job stands
    written        \* the files written: [job, path, kind]

clientVars == << params, fs, dirs, tmpdir, rgb, png, pdf, proc, stdin, runPc,
                 result, error, status, error_logs, task, exc, gatherErr,
                 pagenums, untrusted_pagenums, page, pages, reps, untrusted,
                 nbytes, batch, unfinished, taken, batch_e, conv, reordered,
                 sigint >>

runVars == << jobs, ERROR_LOGS, results, completed, logged, exit_code, mainPc,
              signals, handler, must_cancel >>

pathVars == << run_files, job_pdf, job_at, written >>

vars == << clientVars, runVars, server, pathVars >>

fileVars == << fs, dirs >>

scratchVars == << tmpdir, rgb, png, pdf >>

jobVars == << runPc, result, error, status, error_logs >>

publishVars == << page, pages, reps, untrusted, nbytes >>

queueVars == << batch, unfinished, taken, batch_e >>

(***************************************************************************)
(* Paths.  The original is Path(DocDir, DocName); its trusted PDF gets     *)
(* the name TrustedName (path.with_suffix(".trusted.pdf").name).           *)
(***************************************************************************)
DocDir == "docs"

DocName == "doc.pdf"

TrustedName == "doc.trusted.pdf"

DefaultArchive == "QubesUntrustedPDFs"

Path(dir, name) == << dir, name >>

OriginalPath == Path(DocDir, DocName)

TrustedPath == Path(DocDir, TrustedName)

Paths == { Path(d, n) : d \in {DocDir, DefaultArchive}, n \in {DocName, TrustedName} }

Absent == [kind |-> "absent", pages |-> << >>]

Original == [kind |-> "original", pages |-> << >>]

Pdf(ps) == [kind |-> "pdf", pages |-> ps]

Pages == 1..MaxPages

Tasks == {"send", "page", "publish", "consume"}

Pending(t) == task[t] \notin {"none", "done", "raised", "cancelled"}

ConvPending(n) == conv[n] \in {"created", "running", "unlink"}

\* run() has not been entered
NoRun ==
    /\ jobs = << >>
    /\ ERROR_LOGS = << >>
    /\ results = << >>
    /\ completed = 0
    /\ logged = << >>
    /\ exit_code = -1
    /\ mainPc = "none"
    /\ signals = 0
    /\ handler = FALSE
    /\ must_cancel = {}

\* no server process is looked at
NoServer == server = [pc |-> "none"]

\* no path of a run is followed
NoPaths ==
    /\ run_files = << >>
    /\ job_pdf = << >>
    /\ job_at = << >>
    /\ written = {}

\* one job, as Job.__init__ leaves it
JobInit ==
    /\ params \in [archive : {DefaultArchive, DocDir},
                   batch : 1..MaxBatch,
                   in_place : BOOLEAN]
    /\ fs = [p \in Paths |-> IF p = OriginalPath THEN Original ELSE Absent]
    /\ dirs = {DocDir}
    /\ tmpdir = FALSE
    /\ rgb = {}
    /\ png = {}
    /\ pdf = Absent
    /\ proc = "none"
    /\ stdin = "open"
    /\ runPc = "start"
    /\ result = "pending"
    /\ error = "none"
    /\ status = "none"
    /\ error_logs = 0
    /\ task = [t \in Tasks |-> "none"]
    /\ exc = [t \in Tasks |-> "none"]
    /\ gatherErr = "none"
    /\ pagenums = 0
    /\ untrusted_pagenums = Raise("none")
    /\ page = 0
    /\ pages = << >>
    /\ reps = [n \in Pages |-> NoDim]
    /\ untrusted = [ok |-> FALSE, w |-> 0, h |-> 0, err |-> "none", data |-> << >>]
    /\ nbytes = 0
    /\ batch = << >>
    /\ unfinished = 0
    /\ taken = 0
    /\ batch_e = 0
    /\ conv = [n \in Pages |-> "none"]
    /\ reordered = FALSE
    /\ sigint = "none"

Init ==
    /\ JobInit
    /\ NoRun
    /\ NoServer
    /\ NoPaths

(***************************************************************************)
(* Helpers shared by the actions.                                          *)
(***************************************************************************)
\* terminate_proc (client.py:150-153); SIGTERM and the wait are one step
terminate_proc(p) == IF p = "running" THEN "terminated" ELSE p

\* proc.returncode is not None
Exited(p) == p \notin {"none", "running"}

\* A task ends by raising e; a gather that Job.run awaits takes the first
\* exception of its children (return_exceptions is off).
TaskRaises(t, e, awaited) ==
    /\ task' = [task EXCEPT ![t] = "raised"]
    /\ exc' = [exc EXCEPT ![t] = e]
    /\ gatherErr' = IF awaited /\ gatherErr = "none" THEN e ELSE gatherErr

\* mutant: the directory is removed only when it is empty
RemoveTmpdir_if_empty ==
    /\ tmpdir' = (rgb # {} \/ png # {} \/ pdf # Absent)
    /\ UNCHANGED << rgb, png, pdf >>

\* leaving the "with TemporaryDirectory" block (client.py:462)
RemoveTmpdir ==
    /\ tmpdir' = FALSE
    /\ rgb' = {}
    /\ png' = {}
    /\ pdf' = Absent

\* The except clauses of Job.run (client.py:466-490) for an exception e
\* that left _setup or _start, followed by the exit of the with block.
\* mutant: the exit status of the child is never that of a SIGINT
ExitedOnSigint_never(p) == FALSE

\* self.proc.returncode == -signal.SIGINT (client.py:477)
ExitedOnSigint(p) == p = "sigint"

Job_run_except(e) ==
    /\ runPc' = "done"
    /\ IF e = "CancelledError"
       THEN /\ status' = "CANCELLED"
            /\ result' = "cancelled"
            /\ error' = "CancelledError"
            /\ error_logs' = error_logs
            /\ proc' = proc
       ELSE IF ExitedOnSigint(proc)
       THEN /\ status' = "CANCELLED"
            /\ result' = "cancelled"
            /\ error' = "CancelledError"
            /\ error_logs' = error_logs
            /\ proc' = proc
       ELSE /\ status' = "FAIL"
            /\ result' = "raised"
            /\ error' = e
            /\ error_logs' = error_logs + 1
            /\ proc' = IF Exited(proc) THEN terminate_proc(proc) ELSE proc
    /\ RemoveTmpdir

(***************************************************************************)
(* Job.run up to _setup (client.py:455-464, 495-497).                      *)
(***************************************************************************)
Job_run_spawn ==
    /\ runPc = "start"
    /\ runPc' = "setup"
    /\ proc' = "running"
    /\ tmpdir' = TRUE
    /\ task' = [task EXCEPT !["send"] = "read", !["page"] = "readline"]
    /\ UNCHANGED << runVars, server, pathVars,
                    params, fileVars, rgb, png, pdf, stdin, result, error, status,
                    error_logs, exc, gatherErr, pagenums, untrusted_pagenums,
                    publishVars, queueVars, conv, reordered, sigint >>

\* create_subprocess_exec raises OSError, outside the try block
Job_run_spawn_fails ==
    /\ runPc = "start"
    /\ runPc' = "done"
    /\ result' = "raised"
    /\ error' = "OSError"
    /\ UNCHANGED << runVars, server, pathVars,
                    params, fileVars, scratchVars, proc, stdin, status, error_logs,
                    task, exc, gatherErr, pagenums, untrusted_pagenums,
                    publishVars, queueVars, conv, reordered, sigint >>

(***************************************************************************)
(* Job._send (client.py:546-557).                                          *)
(***************************************************************************)
Job_send_read ==
    /\ task["send"] = "read"
    /\ \/ /\ task' = [task EXCEPT !["send"] = "drain"]
          /\ stdin' = "written"
          /\ UNCHANGED << exc, gatherErr >>
       \/ /\ TaskRaises("send", "OSError", runPc = "setup")
          /\ stdin' = stdin
    /\ UNCHANGED << runVars, server, pathVars,
                    params, fileVars, scratchVars, proc, jobVars, pagenums,
                    untrusted_pagenums, publishVars, queueVars, conv, reordered,
                    sigint >>

Job_send_drain ==
    /\ task["send"] = "drain"
    /\ \/ /\ task' = [task EXCEPT !["send"] = "done"]
          /\ stdin' = "closed"
          /\ UNCHANGED << exc, gatherErr >>
       \/ /\ \E e \in {"QrexecError", "OSError"} :
                TaskRaises("send", e, runPc = "setup")
          /\ stdin' = stdin
    /\ UNCHANGED << runVars, server, pathVars,
                    params, fileVars, scratchVars, proc, jobVars, pagenums,
                    untrusted_pagenums, publishVars, queueVars, conv, reordered,
                    sigint >>

(***************************************************************************)
(* Job._pagenums as a task (client.py:560-572).                            *)
(***************************************************************************)
Job_pagenums_recv_line(data) ==
    /\ task["page"] = "readline"
    /\    LET line == recvline(data)
              r    == Job_pagenums(data)
          IN  /\ untrusted_pagenums' =
                    IF line.ok THEN int(line.val) ELSE Raise(line.err)
              /\ IF r.ok
                 THEN /\ task' = [task EXCEPT !["page"] = "done"]
                      /\ pagenums' = r.val
                      /\ UNCHANGED << exc, gatherErr >>
                 ELSE /\ TaskRaises("page", r.err, runPc = "setup")
                      /\ pagenums' = pagenums
    /\ UNCHANGED << runVars, server, pathVars,
                    params, fileVars, scratchVars, proc, stdin, jobVars,
                    publishVars, queueVars, conv, reordered, sigint >>

Job_pagenums_recv == \E data \in PageLines : Job_pagenums_recv_line(data)

(***************************************************************************)
(* Job._setup after its gather (client.py:499-512) and the start of        *)
(* BaseFile.sanitize (client.py:332-338).                                  *)
(***************************************************************************)
\* mutant: only the second task is awaited
GatherReturned_second(a, b) == task[b] = "done"

\* mutant: the gather returns with the first task
GatherReturned_first(a, b) == task[a] = "done"

\* await asyncio.gather(a, b) returns when both tasks have returned
GatherReturned(a, b) == task[a] = "done" /\ task[b] = "done"

Job_setup_returns ==
    /\ runPc = "setup"
    /\ gatherErr = "none"
    /\ GatherReturned("send", "page")
    /\ runPc' = "sanitize"
    /\ task' = [task EXCEPT !["publish"] = "dim", !["consume"] = "get"]
    /\ page' = 1
    /\ pages' = << >>
    /\ batch' = << >>
    /\ unfinished' = 0
    /\ UNCHANGED << runVars, server, pathVars,
                    params, fileVars, scratchVars, proc, stdin, result, error,
                    status, error_logs, exc, gatherErr, pagenums,
                    untrusted_pagenums, reps, untrusted, nbytes, taken, batch_e,
                    conv, reordered, sigint >>

\* The except clause of _setup (client.py:501-503).  "await
\* cancel_task(page_task)" suspends Job.run when page_task is pending, and
\* does not when the task has finished.
Job_setup_raises ==
    /\ runPc = "setup"
    /\ gatherErr # "none"
    /\ IF gatherErr = "QrexecError" /\ Pending("page")
       THEN /\ task' = [task EXCEPT !["page"] = "cancelled"]
            /\ runPc' = "cleanup"
            /\ UNCHANGED << scratchVars, proc, result, error, status, error_logs >>
       ELSE /\ task' = task
            /\ Job_run_except(gatherErr)
    /\ UNCHANGED << runVars, server, pathVars,
                    params, fileVars, stdin, exc, gatherErr, pagenums,
                    untrusted_pagenums, publishVars, queueVars, conv, reordered,
                    sigint >>


(***************************************************************************)
(* Representation.receive and BaseFile._publish (client.py:259-280,        *)
(* 352-374).  The queue is never full when _publish puts (QueueHasRoom     *)
(* below), so the put does not suspend and the steps from create_task to   *)
(* the batch test are one step.                                            *)
(***************************************************************************)
\* mutant: read(size) instead of readexactly(size), a short read is returned
recv_b_short(size, avail) ==
    [ok |-> TRUE, taken |-> IF avail >= size THEN size ELSE avail, err |-> "none"]

\* StreamReader.readexactly(size) on a stream that ends after avail bytes
recv_b(size, avail) ==
    IF avail >= size
    THEN [ok |-> TRUE, taken |-> size, err |-> "none"]
    ELSE [ok |-> FALSE, taken |-> avail, err |-> "IncompleteReadError"]

BaseFile_publish_dim_line(data) ==
    /\ task["publish"] = "dim"
    /\ page <= MaxPages
    /\    LET line == recvline(data)
              r    == Representation_dim(data)
              u    == IF line.ok THEN UntrustedDims(line.val)
                      ELSE [ok |-> FALSE, w |-> 0, h |-> 0, err |-> line.err]
          IN  /\ untrusted' = [ok |-> u.ok, w |-> u.w, h |-> u.h, err |-> u.err,
                               data |-> data]
              /\ IF r.ok
                 THEN /\ task' = [task EXCEPT !["publish"] = "recv"]
                      /\ reps' = [reps EXCEPT ![page] = r.val]
                      /\ UNCHANGED << exc, gatherErr >>
                 ELSE /\ TaskRaises("publish", ReceiveDimError(r.err),
                                    runPc = "sanitize")
                      /\ reps' = reps
    /\ nbytes' = 0
    /\ UNCHANGED << runVars, server, pathVars,
                    params, fileVars, scratchVars, proc, stdin, jobVars, pagenums,
                    untrusted_pagenums, page, pages, queueVars, conv, reordered,
                    sigint >>

BaseFile_publish_dim == \E data \in DimLines : BaseFile_publish_dim_line(data)

BaseFile_publish_recv ==
    /\ task["publish"] = "recv"
    /\ \E avail \in { 0, reps[page].size - 1, reps[page].size,
                      reps[page].size + 1 } :
          LET r == recv_b(reps[page].size, avail)
          IN  /\ nbytes' = r.taken
              /\ IF r.ok
                 THEN /\ task' = [task EXCEPT !["publish"] = "write"]
                      /\ UNCHANGED << exc, gatherErr >>
                 ELSE TaskRaises("publish", "QrexecError", runPc = "sanitize")
    /\ UNCHANGED << runVars, server, pathVars,
                    params, fileVars, scratchVars, proc, stdin, jobVars, pagenums,
                    untrusted_pagenums, page, pages, reps, untrusted, queueVars,
                    conv, reordered, sigint >>

\* mutant: every page ends a batch
BatchComplete_every_page(pg, maxsize, total) == TRUE

\* mutant: the batch is assembled at the last page only
BatchComplete_last_only(pg, maxsize, total) == pg = total

\* the batch test of _publish (client.py:371)
BatchComplete(pg, maxsize, total) == pg % maxsize = 0 \/ pg = total

\* mutant: the page is put in front of the batch
PagesAppend_front(ps, pg) == << pg >> \o ps

\* mutant: the page is not added to the batch
PagesAppend_dropped(ps, pg) == ps

\* pages.append(page)
PagesAppend(ps, pg) == Append(ps, pg)

\* for page in range(1, self.pagenums + 1): the end of one iteration
NextIteration(pg) == IF pg = pagenums THEN "done" ELSE "dim"

NextPage(pg) == IF pg = pagenums THEN pg ELSE pg + 1

BaseFile_publish_write ==
    /\ task["publish"] = "write"
    /\ \/ /\ rgb' = rgb \cup {page}
          /\ conv' = [conv EXCEPT ![page] = "created"]
          /\ batch' = Append(batch, page)
          /\ unfinished' = unfinished + 1
          /\ pages' = PagesAppend(pages, page)
          /\ IF BatchComplete(page, params.batch, pagenums)
             THEN /\ task' = [task EXCEPT !["publish"] = "join"]
                  /\ page' = page
             ELSE /\ task' = [task EXCEPT !["publish"] = NextIteration(page)]
                  /\ page' = NextPage(page)
          /\ UNCHANGED << exc, gatherErr >>
       \/ /\ TaskRaises("publish", "OSError", runPc = "sanitize")
          /\ UNCHANGED << rgb, conv, batch, unfinished, pages, page >>
    /\ UNCHANGED << runVars, server, pathVars,
                    params, fileVars, tmpdir, png, pdf, proc, stdin, jobVars,
                    pagenums, untrusted_pagenums, reps, untrusted, nbytes, taken,
                    batch_e, reordered, sigint >>

\* mutant: the entry is never marked as done
task_done_forgotten(n) == n

\* Queue.task_done: one entry less is unfinished
task_done(n) == n - 1

\* mutant: the join returns at once
joined_at_once(n) == TRUE

\* Queue.join returns when no entry is unfinished
joined(n) == n = 0

BaseFile_publish_join ==
    /\ task["publish"] = "join"
    /\ joined(unfinished)
    /\ task' = [task EXCEPT !["publish"] = "open"]
    /\ UNCHANGED << runVars, server, pathVars,
                    params, fileVars, scratchVars, proc, stdin, jobVars, exc,
                    gatherErr, pagenums, untrusted_pagenums, publishVars,
                    queueVars, conv, reordered, sigint >>

(***************************************************************************)
(* BaseFile._save_reps (client.py:385-428): open the PNGs of the batch,    *)
(* save them to the temporary PDF, close and unlink them.                  *)
(***************************************************************************)
Range(s) == { s[i] : i \in 1..Len(s) }

BaseFile_save_reps_open ==
    /\ task["publish"] = "open"
    /\ \E opened \in BOOLEAN :
          IF opened /\ Range(pages) \subseteq png
          THEN /\ task' = [task EXCEPT !["publish"] = "save"]
               /\ UNCHANGED << exc, gatherErr >>
          ELSE TaskRaises("publish", "RepresentationError", runPc = "sanitize")
    /\ UNCHANGED << runVars, server, pathVars,
                    params, fileVars, scratchVars, proc, stdin, jobVars, pagenums,
                    untrusted_pagenums, publishVars, queueVars, conv, reordered,
                    sigint >>

\* mutant: append is never set, each batch overwrites the file
Image_save_overwrite(file, images) == [kind |-> "pdf", pages |-> images]

\* images[0].save(self.pdf, append=self.pdf.exists(), append_images=images[1:])
Image_save(file, images) ==
    IF file.kind = "pdf" THEN Pdf(file.pages \o images) ELSE Pdf(images)

BaseFile_save_reps_save ==
    /\ task["publish"] = "save"
    /\ task' = [task EXCEPT !["publish"] = "unlink"]
    /\ \/ /\ pdf' = Image_save(pdf, pages)
          /\ exc' = exc
       \/ /\ pdf' = pdf
          /\ exc' = [exc EXCEPT !["publish"] = "RepresentationError"]
    /\ UNCHANGED << runVars, server, pathVars,
                    params, fileVars, tmpdir, rgb, png, proc, stdin, jobVars,
                    gatherErr, pagenums, untrusted_pagenums, publishVars,
                    queueVars, conv, reordered, sigint >>

\* the finally block of _save_reps, then the end of the loop body of
\* _publish: pages = [] drops the batch, and with it its Representations
BaseFile_save_reps_unlink ==
    /\ task["publish"] = "unlink"
    /\ \/ /\ png' = png \ Range(pages)
          /\ IF exc["publish"] # "none"
             THEN /\ TaskRaises("publish", exc["publish"], runPc = "sanitize")
                  /\ UNCHANGED << page, pages, reps, nbytes >>
             ELSE /\ pages' = << >>
                  /\ reps' = [n \in Pages |->
                                IF n \in Range(pages) THEN NoDim ELSE reps[n]]
                  /\ nbytes' = 0
                  /\ task' = [task EXCEPT !["publish"] = NextIteration(page)]
                  /\ page' = NextPage(page)
                  /\ UNCHANGED << exc, gatherErr >>
       \/ /\ TaskRaises("publish", "OSError", runPc = "sanitize")
          /\ UNCHANGED << png, page, pages, reps, nbytes >>
    /\ UNCHANGED << runVars, server, pathVars,
                    params, fileVars, tmpdir, rgb, pdf, proc, stdin, jobVars,
                    pagenums, untrusted_pagenums, untrusted,
                    queueVars, conv, reordered, sigint >>

(***************************************************************************)
(* BaseFile._consume (client.py:377-382).                                  *)
(***************************************************************************)
BaseFile_consume_get ==
    /\ task["consume"] = "get"
    /\ batch # << >>
    /\ batch_e' = Head(batch)
    /\ batch' = Tail(batch)
    /\ task' = [task EXCEPT !["consume"] = "await"]
    /\ UNCHANGED << runVars, server, pathVars,
                    params, fileVars, scratchVars, proc, stdin, jobVars, exc,
                    gatherErr, pagenums, untrusted_pagenums, publishVars,
                    unfinished, taken, conv, reordered, sigint >>

\* mutant: the exception of the conversion is dropped
Awaited_swallowed(c) == Ok(c)

\* await batch_e.task: returns when the task has returned, raises what it raised
Awaited(c) == IF c = "done" THEN Ok(c) ELSE Raise(c)

BaseFile_consume_await ==
    /\ task["consume"] = "await"
    /\ conv[batch_e] \notin {"none", "created", "running", "unlink", "cancelled"}
    /\ IF Awaited(conv[batch_e]).ok
       THEN /\ unfinished' = task_done(unfinished)
            /\ taken' = taken + 1
            /\ task' = [task EXCEPT !["consume"] =
                          IF taken + 1 = pagenums THEN "done" ELSE "get"]
            /\ UNCHANGED << exc, gatherErr >>
       ELSE /\ TaskRaises("consume", Awaited(conv[batch_e]).err, runPc = "sanitize")
            /\ UNCHANGED << unfinished, taken >>
    /\ UNCHANGED << runVars, server, pathVars,
                    params, fileVars, scratchVars, proc, stdin, jobVars, pagenums,
                    untrusted_pagenums, publishVars, batch, batch_e, conv,
                    reordered, sigint >>

(***************************************************************************)
(* Representation.convert, one task per page (client.py:227-256).          *)
(***************************************************************************)
Representation_convert_spawn(n) ==
    /\ conv[n] = "created"
    /\ \E s \in {"running", "OSError"} : conv' = [conv EXCEPT ![n] = s]
    /\ UNCHANGED << runVars, server, pathVars,
                    params, fileVars, scratchVars, proc, stdin, jobVars, task, exc,
                    gatherErr, pagenums, untrusted_pagenums, publishVars,
                    queueVars, reordered, sigint >>

\* gm convert exits: with status 0 after writing the PNG, or with another status
Representation_convert_exit(n) ==
    /\ conv[n] = "running"
    /\ \/ /\ conv' = [conv EXCEPT ![n] = "unlink"]
          /\ png' = png \cup {n}
       \/ /\ conv' = [conv EXCEPT ![n] = "RepresentationError"]
          /\ png' \in {png, png \cup {n}}
    /\ UNCHANGED << runVars, server, pathVars,
                    params, fileVars, tmpdir, rgb, pdf, proc, stdin, jobVars, task,
                    exc, gatherErr, pagenums, untrusted_pagenums, publishVars,
                    queueVars, reordered, sigint >>

Representation_convert_unlink(n) ==
    /\ conv[n] = "unlink"
    /\ \/ /\ conv' = [conv EXCEPT ![n] = "done"]
          /\ rgb' = rgb \ {n}
          /\ reordered' = (reordered \/ \E m \in 1..(n - 1) : ConvPending(m))
       \/ /\ conv' = [conv EXCEPT ![n] = "OSError"]
          /\ UNCHANGED << rgb, reordered >>
    /\ UNCHANGED << runVars, server, pathVars,
                    params, fileVars, tmpdir, png, pdf, proc, stdin, jobVars, task,
                    exc, gatherErr, pagenums, untrusted_pagenums, publishVars,
                    queueVars, sigint >>


(***************************************************************************)
(* The end of BaseFile.sanitize (client.py:337-349).  The finally block    *)
(* cancels what is left: a pending publish or consume task (cancelling     *)
(* _consume while it awaits a conversion cancels that conversion, and a    *)
(* cancelled conversion terminates its subprocess, wait_proc), then every  *)
(* conversion still in the queue.  The block is one step.                  *)
(***************************************************************************)
\* mutant: only the conversions still in the queue are cancelled
CancelledByFinally_queued(n) == ConvPending(n) /\ n \in Range(batch)

CancelledByFinally(n) ==
    /\ ConvPending(n)
    /\ \/ n \in Range(batch)
       \/ task["consume"] = "await" /\ batch_e = n

SanitizeFinally ==
    /\ task' = [t \in Tasks |->
                  IF t \in {"publish", "consume"} /\ Pending(t)
                  THEN "cancelled" ELSE task[t]]
    /\ conv' = [n \in Pages |->
                  IF CancelledByFinally(n) THEN "cancelled" ELSE conv[n]]
    /\ batch' = << >>
    /\ unfinished' = unfinished - Len(batch)

BaseFile_sanitize_returns ==
    /\ runPc = "sanitize"
    /\ gatherErr = "none"
    /\ GatherReturned("publish", "consume")
    /\ SanitizeFinally
    /\ runPc' = "wait_proc"
    /\ UNCHANGED << runVars, server, pathVars,
                    params, fileVars, scratchVars, proc, stdin, result, error,
                    status, error_logs, exc, gatherErr, pagenums,
                    untrusted_pagenums, publishVars, taken, batch_e, reordered,
                    sigint >>

\* the finally block has a task to cancel, and suspends on it
FinallySuspends ==
    \/ Pending("publish")
    \/ Pending("consume")
    \/ \E n \in Pages : CancelledByFinally(n)

BaseFile_sanitize_raises ==
    /\ runPc = "sanitize"
    /\ gatherErr # "none"
    /\ SanitizeFinally
    /\ IF FinallySuspends
       THEN /\ runPc' = "cleanup"
            /\ UNCHANGED << scratchVars, proc, result, error, status, error_logs >>
       ELSE Job_run_except(gatherErr)
    /\ UNCHANGED << runVars, server, pathVars,
                    params, fileVars, stdin, exc, gatherErr, pagenums,
                    untrusted_pagenums, publishVars, taken, batch_e, reordered,
                    sigint >>

\* The cancelled tasks have finished: cancel_task returns (client.py:142-147)
\* and the exception that left the gather goes on to Job.run.
Cleanup_returns ==
    /\ runPc = "cleanup"
    /\ Job_run_except(gatherErr)
    /\ UNCHANGED << runVars, server, pathVars,
                    params, fileVars, stdin, task, exc, gatherErr, pagenums,
                    untrusted_pagenums, publishVars, queueVars, conv, reordered,
                    sigint >>

(***************************************************************************)
(* Job._start after sanitize (client.py:521-543) and Job._archive          *)
(* (client.py:575-578).                                                    *)
(***************************************************************************)
\* mutant: the exit status of the child is not looked at
wait_proc_unchecked(p) == Ok(p)

\* wait_proc (client.py:156-164) once the child has exited:
\* if proc.returncode: raise CalledProcessError
wait_proc(p) == IF p = "exit0" THEN Ok(p) ELSE Raise("CalledProcessError")

Job_start_wait_proc ==
    /\ runPc = "wait_proc"
    /\ Exited(proc)
    /\ IF wait_proc(proc).ok
       THEN /\ runPc' = "move"
            /\ UNCHANGED << scratchVars, proc, result, error, status, error_logs >>
       ELSE Job_run_except(wait_proc(proc).err)
    /\ UNCHANGED << runVars, server, pathVars,
                    params, fileVars, stdin, task, exc, gatherErr, pagenums,
                    untrusted_pagenums, publishVars, queueVars, conv, reordered,
                    sigint >>

\* mutant: the temporary PDF is moved into the archive directory
shutil_move_elsewhere(files, file, dst) ==
    [files EXCEPT ![<< "QubesUntrustedPDFs", dst[2] >>] = file]

\* shutil.move(src, dst) of the temporary PDF
shutil_move(files, file, dst) == [files EXCEPT ![dst] = file]

\* mutant: the file is copied, the source stays
rename_copy(files, src, dst) == [files EXCEPT ![dst] = files[src]]

\* Path.rename
rename(files, src, dst) ==
    IF src = dst THEN files
    ELSE [files EXCEPT ![dst] = files[src], ![src] = Absent]

\* Path.unlink
unlink(files, path) == [files EXCEPT ![path] = Absent]

Job_start_move ==
    /\ runPc = "move"
    /\ \/ /\ fs' = shutil_move(fs, pdf, TrustedPath)
          /\ pdf' = Absent
          /\ runPc' = "finalize"
          /\ UNCHANGED << tmpdir, rgb, png, proc, result, error, status,
                          error_logs >>
       \/ /\ Job_run_except("OSError")
          /\ fs' = fs
    /\ UNCHANGED << runVars, server, pathVars,
                    params, dirs, stdin, task, exc, gatherErr, pagenums,
                    untrusted_pagenums, publishVars, queueVars, conv, reordered,
                    sigint >>

\* what the worker thread does for the last step of _start
FinalizeFiles(files) ==
    IF params.in_place
    THEN unlink(files, OriginalPath)
    ELSE rename(files, OriginalPath, Path(params.archive, DocName))

FinalizeDirs(ds) ==
    IF params.in_place THEN ds ELSE ds \cup {params.archive}

Job_start_finalize ==
    /\ runPc = "finalize"
    /\ \/ /\ fs' = FinalizeFiles(fs)
          /\ dirs' = FinalizeDirs(dirs)
          /\ runPc' = "done"
          /\ result' = "returned"
          /\ status' = "DONE"
          /\ RemoveTmpdir
          /\ UNCHANGED << proc, error, error_logs >>
       \/ /\ Job_run_except("OSError")
          /\ fs' = fs
          /\ dirs' \in {dirs, FinalizeDirs(dirs)}
    /\ UNCHANGED << runVars, server, pathVars,
                    params, stdin, task, exc, gatherErr, pagenums,
                    untrusted_pagenums, publishVars, queueVars, conv, reordered,
                    sigint >>

(***************************************************************************)
(* The transport child.  It exits when the server side makes it exit; a    *)
(* SIGINT reaches it too, as it is in the client's process group           *)
(* (client.py:472-478).                                                    *)
(***************************************************************************)
Proc_exits ==
    /\ proc = "running"
    /\ result = "pending"
    /\ proc' \in {"exit0", "exit1"}
    /\ UNCHANGED << runVars, server, pathVars,
                    params, fileVars, scratchVars, stdin, jobVars, task, exc,
                    gatherErr, pagenums, untrusted_pagenums, publishVars,
                    queueVars, conv, reordered, sigint >>

(***************************************************************************)
(* SIGINT (client.py:85-86, 142-147, 591-594).  The handler cancels the    *)
(* task of Job.run where it stands.  The transport child is in the same    *)
(* process group and gets the signal too: it may exit on it before the     *)
(* handler has run (client.py:472-478), and the job runs on in between.    *)
(* One SIGINT per run is modelled.                                         *)
(***************************************************************************)
\* cancelled inside create_subprocess_exec, before the try block
Cancel_at_start ==
    /\ runPc = "start"
    /\ runPc' = "done"
    /\ result' = "cancelled"
    /\ error' = "CancelledError"
    /\ UNCHANGED << fileVars, scratchVars, proc, status, error_logs, task, queueVars,
                    conv >>

\* cancelled at the gather of _setup: the gather cancels its children,
\* unless it has already taken a child's exception
Cancel_at_setup ==
    /\ runPc = "setup"
    /\ task' = [t \in Tasks |->
                  IF gatherErr = "none" /\ Pending(t) THEN "cancelled" ELSE task[t]]
    /\ Job_run_except("CancelledError")
    /\ UNCHANGED << fileVars, queueVars, conv >>

Cancel_at_sanitize ==
    /\ runPc = "sanitize"
    /\ SanitizeFinally
    /\ Job_run_except("CancelledError")
    /\ UNCHANGED << fileVars, taken, batch_e >>

\* wait_proc's except clause terminates the child
Cancel_at_wait_proc ==
    /\ runPc = "wait_proc"
    /\ runPc' = "done"
    /\ status' = "CANCELLED"
    /\ result' = "cancelled"
    /\ error' = "CancelledError"
    /\ proc' = terminate_proc(proc)
    /\ RemoveTmpdir
    /\ UNCHANGED << fileVars, error_logs, task, queueVars, conv >>

\* cancelled while a worker thread runs shutil.move, unlink or _archive: the
\* thread has not started and never will, or it runs to its end
Cancel_at_move ==
    /\ runPc = "move"
    /\ fs' \in {fs, shutil_move(fs, pdf, TrustedPath)}
    /\ Job_run_except("CancelledError")
    /\ UNCHANGED << dirs, task, queueVars, conv >>

Cancel_at_finalize ==
    /\ runPc = "finalize"
    /\ \/ UNCHANGED << fs, dirs >>
       \/ /\ fs' = FinalizeFiles(fs)
          /\ dirs' = FinalizeDirs(dirs)
    /\ Job_run_except("CancelledError")
    /\ UNCHANGED << task, queueVars, conv >>

\* Cancelled while Job.run is suspended in "await task" of cancel_task
\* (client.py:144-147): the CancelledError is raised there, and the bare
\* except clause drops it.
Cancel_at_cleanup ==
    /\ runPc = "cleanup"
    /\ UNCHANGED << fileVars, scratchVars, proc, jobVars, task, queueVars, conv >>

Cancel_when_done ==
    /\ runPc = "done"
    /\ UNCHANGED << fileVars, scratchVars, proc, jobVars, task, queueVars, conv >>

cancel_task ==
    \/ Cancel_at_cleanup
    \/ Cancel_at_start
    \/ Cancel_at_setup
    \/ Cancel_at_sanitize
    \/ Cancel_at_wait_proc
    \/ Cancel_at_move
    \/ Cancel_at_finalize
    \/ Cancel_when_done

\* the signal arrives and the handler runs before anything else happens
Sigint ==
    /\ sigint = "none"
    /\ result = "pending"
    /\ sigint' = "handled"
    /\ cancel_task
    /\ UNCHANGED << runVars, server, pathVars,
                    params, stdin, exc, gatherErr, pagenums, untrusted_pagenums,
                    publishVars, reordered >>

\* the signal arrives and the transport child exits on it first
Sigint_kills_child ==
    /\ sigint = "none"
    /\ result = "pending"
    /\ proc = "running"
    /\ sigint' = "sent"
    /\ proc' = "sigint"
    /\ UNCHANGED << runVars, server, pathVars,
                    params, fileVars, scratchVars, stdin, jobVars, task, exc,
                    gatherErr, pagenums, untrusted_pagenums, publishVars,
                    queueVars, conv, reordered >>

sigint_handler ==
    /\ sigint = "sent"
    /\ sigint' = "handled"
    /\ cancel_task
    /\ UNCHANGED << runVars, server, pathVars,
                    params, stdin, exc, gatherErr, pagenums, untrusted_pagenums,
                    publishVars, reordered >>

(***************************************************************************)
(* The specification.                                                      *)
(***************************************************************************)
Next ==
    \/ Job_run_spawn
    \/ Job_run_spawn_fails
    \/ Job_send_read
    \/ Job_send_drain
    \/ Job_pagenums_recv
    \/ Job_setup_returns
    \/ Job_setup_raises
    \/ BaseFile_publish_dim
    \/ BaseFile_publish_recv
    \/ BaseFile_publish_write
    \/ BaseFile_publish_join
    \/ BaseFile_save_reps_open
    \/ BaseFile_save_reps_save
    \/ BaseFile_save_reps_unlink
    \/ BaseFile_consume_get
    \/ BaseFile_consume_await
    \/ \E n \in Pages : Representation_convert_spawn(n)
    \/ \E n \in Pages : Representation_convert_exit(n)
    \/ \E n \in Pages : Representation_convert_unlink(n)
    \/ BaseFile_sanitize_returns
    \/ BaseFile_sanitize_raises
    \/ Cleanup_returns
    \/ Job_start_wait_proc
    \/ Job_start_move
    \/ Job_start_finalize
    \/ Proc_exits
    \/ Sigint
    \/ Sigint_kills_child
    \/ sigint_handler

Spec == Init /\ [][Next]_vars

(***************************************************************************)
(* run() and main() for several files (client.py:581-666).  Each file has  *)
(* a Job whose run() is a task; here a job is followed only as far as      *)
(* run() sees it: the spawn of its child, the body of the try block        *)
(* (which returns, raises, or suspends inside cancel_task while it cleans  *)
(* up after an error), and the except clauses (client.py:455-492).         *)
(***************************************************************************)
MaxFiles == 2

MaxSigints == 1

\* The exceptions Job.run handles (client.py:466-471).  Its except clause
\* treats them all alike, so the jobs below raise only those of Raised.
HandledErrors == { "OSError", "PageError", "QrexecError", "DimensionError",
                   "RepresentationError", "CalledProcessError" }

Raised == { "QrexecError", "CalledProcessError" }

\* Job.__init__ (client.py:438-452), and the task of Job.run before it ran
NewJob == [pc |-> "spawn", proc |-> "none", status |-> "none",
           out |-> "pending", exc |-> "none"]

JobIds == 1..Len(jobs)

InitRun ==
    /\ JobInit
    /\ params = [archive |-> DefaultArchive, batch |-> 1, in_place |-> FALSE]
    /\ NoServer
    /\ NoPaths
    /\ jobs \in { [j \in 1..n |-> NewJob] : n \in 0..MaxFiles }
    /\ ERROR_LOGS = << >>
    /\ results = << >>
    /\ completed = 0
    /\ logged = << >>
    /\ exit_code = -1
    /\ mainPc = "main"
    /\ signals = 0
    /\ handler = FALSE
    /\ must_cancel = {}

\* the except clauses of Job.run (client.py:466-490) for the exception e
Job_run_handles(job, e) ==
    IF e = "CancelledError" \/ job.proc = "sigint"
    THEN [job EXCEPT !.pc = "done", !.status = "CANCELLED",
                     !.out = "CancelledError"]
    ELSE [job EXCEPT !.pc = "done", !.status = "FAIL", !.out = e,
                     !.proc = IF Exited(job.proc) THEN terminate_proc(job.proc)
                              ELSE job.proc]

\* the clause puts an entry into ERROR_LOGS (client.py:484)
Job_run_logs(job, e) == e # "CancelledError" /\ job.proc # "sigint"

\* the task of job j is scheduled: run() is in its gather, and no
\* cancellation of the task is waiting to be delivered
Runs(j) == mainPc = "gather" /\ j \notin must_cancel

Jobs_run_spawn(j) ==
    /\ Runs(j)
    /\ jobs[j].pc = "spawn"
    /\ \/ jobs' = [jobs EXCEPT ![j].pc = "try", ![j].proc = "running"]
       \/ jobs' = [jobs EXCEPT ![j].pc = "done", ![j].out = "OSError"]
    /\ UNCHANGED << clientVars, server, pathVars, ERROR_LOGS, results, completed, logged,
                    exit_code, mainPc, signals, handler, must_cancel >>

Jobs_proc_exits(j) ==
    /\ mainPc = "gather"
    /\ jobs[j].pc \in {"try", "cleanup"}
    /\ jobs[j].proc = "running"
    /\ \E p \in {"exit0", "exit1"} : jobs' = [jobs EXCEPT ![j].proc = p]
    /\ UNCHANGED << clientVars, server, pathVars, ERROR_LOGS, results, completed, logged,
                    exit_code, mainPc, signals, handler, must_cancel >>

\* _setup and _start returned: wait_proc saw the exit status 0
Jobs_run_returns(j) ==
    /\ Runs(j)
    /\ jobs[j].pc = "try"
    /\ wait_proc(jobs[j].proc).ok
    /\ jobs' = [jobs EXCEPT ![j].pc = "done", ![j].status = "DONE",
                            ![j].out = "None"]
    /\ UNCHANGED << clientVars, server, pathVars, ERROR_LOGS, results, completed, logged,
                    exit_code, mainPc, signals, handler, must_cancel >>

\* the exception e that left _setup or _start reaches the except clauses
Job_run_ends(j, e) ==
    /\ jobs' = [jobs EXCEPT ![j] = Job_run_handles(jobs[j], e)]
    /\ ERROR_LOGS' = IF Job_run_logs(jobs[j], e) THEN Append(ERROR_LOGS, j)
                     ELSE ERROR_LOGS

Jobs_run_raises(j) ==
    /\ Runs(j)
    /\ jobs[j].pc = "try"
    /\ \E e \in Raised : Job_run_ends(j, e)
    /\ UNCHANGED << clientVars, server, pathVars, results, completed, logged, exit_code,
                    mainPc, signals, handler, must_cancel >>

\* an exception left a gather, and the job awaits cancel_task for a task
\* that is pending (client.py:501-502, 339-349)
Jobs_run_cleanup(j) ==
    /\ Runs(j)
    /\ jobs[j].pc = "try"
    /\ \E e \in Raised :
          jobs' = [jobs EXCEPT ![j].pc = "cleanup", ![j].exc = e]
    /\ UNCHANGED << clientVars, server, pathVars, ERROR_LOGS, results, completed, logged,
                    exit_code, mainPc, signals, handler, must_cancel >>

Jobs_run_cleanup_returns(j) ==
    /\ Runs(j)
    /\ jobs[j].pc = "cleanup"
    /\ Job_run_ends(j, jobs[j].exc)
    /\ UNCHANGED << clientVars, server, pathVars, results, completed, logged, exit_code,
                    mainPc, signals, handler, must_cancel >>


\* The CancelledError is raised in the task of job j where it is suspended
\* (client.py:142-147): in create_subprocess_exec, before the try block; in
\* the try block, where wait_proc terminates the child when the job was
\* waiting for its exit; or in the "await task" of cancel_task, whose bare
\* except clause drops it.
Jobs_run_cancelled(j) ==
    /\ j \in must_cancel
    /\ must_cancel' = must_cancel \ {j}
    /\ \/ /\ jobs[j].pc = "spawn"
          /\ jobs' = [jobs EXCEPT ![j].pc = "done", ![j].out = "CancelledError"]
       \/ /\ jobs[j].pc = "try"
          /\ \E p \in {jobs[j].proc, terminate_proc(jobs[j].proc)} :
                jobs' = [jobs EXCEPT
                            ![j] = Job_run_handles([jobs[j] EXCEPT !.proc = p],
                                                   "CancelledError")]
       \/ /\ jobs[j].pc \in {"cleanup", "done"}
          /\ jobs' = jobs
    /\ UNCHANGED << clientVars, server, pathVars, ERROR_LOGS, results, completed, logged,
                    exit_code, mainPc, signals, handler >>

\* SIGINT: the loop schedules sigint_handler (client.py:591-594); the
\* children are in the same process group, and each may exit on the signal
\* (client.py:472-478).
run_sigint ==
    /\ mainPc = "gather"
    /\ signals < MaxSigints
    /\ signals' = signals + 1
    /\ handler' = TRUE
    /\ \E killed \in SUBSET { j \in JobIds : jobs[j].proc = "running" } :
          jobs' = [j \in JobIds |->
                     IF j \in killed THEN [jobs[j] EXCEPT !.proc = "sigint"]
                     ELSE jobs[j]]
    /\ UNCHANGED << clientVars, server, pathVars, ERROR_LOGS, results, completed, logged,
                    exit_code, mainPc, must_cancel >>

\* sigint_handler (client.py:85-86): task.cancel() for every task; for a
\* task that has finished it does nothing
run_sigint_handler ==
    /\ handler
    /\ handler' = FALSE
    /\ must_cancel' = must_cancel \cup { j \in JobIds : jobs[j].pc # "done" }
    /\ UNCHANGED << clientVars, server, pathVars, jobs, ERROR_LOGS, results, completed,
                    logged, exit_code, mainPc, signals >>

\* main without files (client.py:662-666): it prints and returns
main_no_files ==
    /\ mainPc = "main"
    /\ jobs = << >>
    /\ mainPc' = "exit"
    /\ exit_code' = 0
    /\ UNCHANGED << clientVars, server, pathVars, jobs, ERROR_LOGS, results, completed,
                    logged, signals, handler, must_cancel >>

\* run creates one task per file (client.py:584-589)
run_create_tasks ==
    /\ mainPc = "main"
    /\ jobs # << >>
    /\ mainPc' = "gather"
    /\ UNCHANGED << clientVars, server, pathVars, jobs, ERROR_LOGS, results, completed,
                    logged, exit_code, signals, handler, must_cancel >>

\* mutant: gather without return_exceptions, the first exception ends it
gather_first_exception(js) ==
    \/ \A j \in DOMAIN js : js[j].pc = "done"
    \/ \E j \in DOMAIN js : js[j].pc = "done" /\ js[j].out # "None"

\* asyncio.gather(*tasks, return_exceptions=True) has its result
gather(js) == \A j \in DOMAIN js : js[j].pc = "done"

\* mutant: every result is counted
count_all(seq, x) == Len(seq)

\* list.count
count(seq, x) == Cardinality({ i \in DOMAIN seq : seq[i] = x })

run_gather ==
    /\ mainPc = "gather"
    /\ gather(jobs)
    /\ results' = [j \in JobIds |-> jobs[j].out]
    /\ completed' = count(results', "None")
    /\ mainPc' = "report"
    /\ UNCHANGED << clientVars, server, pathVars, jobs, ERROR_LOGS, logged, exit_code,
                    signals, handler, must_cancel >>

\* sys.exit(arg) for the bool that run returns
sys_exit(arg) == IF arg THEN 1 ELSE 0

\* the report of run (client.py:599-625) and sys.exit in main
run_report ==
    /\ mainPc = "report"
    /\ logged' = ERROR_LOGS
    /\ ERROR_LOGS' = << >>
    /\ exit_code' = sys_exit(completed # Len(results))
    /\ mainPc' = "exit"
    /\ UNCHANGED << clientVars, server, pathVars, jobs, results, completed, signals,
                    handler, must_cancel >>

NextRun ==
    \/ \E j \in JobIds : Jobs_run_spawn(j)
    \/ \E j \in JobIds : Jobs_proc_exits(j)
    \/ \E j \in JobIds : Jobs_run_returns(j)
    \/ \E j \in JobIds : Jobs_run_raises(j)
    \/ \E j \in JobIds : Jobs_run_cleanup(j)
    \/ \E j \in JobIds : Jobs_run_cleanup_returns(j)
    \/ \E j \in JobIds : Jobs_run_cancelled(j)
    \/ run_sigint
    \/ run_sigint_handler
    \/ main_no_files
    \/ run_create_tasks
    \/ run_gather
    \/ run_report

SpecRun == InitRun /\ [][NextRun]_vars


(***************************************************************************)
(* The server (server.py), as far as the client's transport sees it: it    *)
(* reads the document up to the end of its stdin, writes the page count,   *)
(* and then for each page a dimension line and the payload.  Its stdout    *)
(* is a pipe: a write returns when the pipe has room.  What the client     *)
(* has taken off the pipe follows from where its tasks stand.              *)
(***************************************************************************)
PipeCapacity == 1

\* messages the client has read: the page count line, then two per page
LinesRead == IF task["page"] \in {"done", "raised"} THEN 1 ELSE 0

PagesRead ==
    CASE task["publish"] = "dim" -> 2 * (page - 1)
      [] task["publish"] = "recv" -> 2 * (page - 1) + 1
      [] task["publish"] \in {"write", "join", "open", "save", "unlink"} -> 2 * page
      [] task["publish"] = "done" -> 2 * pagenums
      [] OTHER -> 0

Consumed == LinesRead + PagesRead

\* the server's write to stdout does not block
PipeHasRoom == Len(server.out) - Consumed < PipeCapacity

\* a read of the client finds a message
PipeHasData == Len(server.out) > Consumed

\* the message the next read of the client takes off the pipe
NextMessage == server.out[Consumed + 1]

\* Path.read_bytes of the original: the bytes of the document
DocBytes == << "%", "P", "D", "F" >>

\* send(proc, data) of the client (client.py:167-173): data is bytes, and
\* proc.stdin.write(data) writes them as they are
send_written(data) == data

\* what the client has written to the stdin of the server
StdinBytes == IF stdin \in {"written", "closed"} THEN send_written(DocBytes) ELSE << >>

\* mutant: the read returns as soon as bytes are there
ReadReturns_early(s) == s \in {"written", "closed"}

\* sys.stdin.buffer.read() returns at the end of the stream
ReadReturns(s) == s = "closed"

MimeTypes == {"application/pdf", "image/", "audio/", "video/", "other"}

\* mutant: every type is converted
Unsupported_none(mimetype) == FALSE

\* the types sanitize refuses (server.py:267-268)
Unsupported(mimetype) == mimetype \in {"video/", "audio/"}

\* the size of the final representation of a page of 1 x 1 pixels
RgbSize == 3

\* mutant: the message is written in front of what was written
send_first(out, of, n, data) == << [of |-> of, page |-> n, data |-> data] >> \o out

\* send and send_b of the server (server.py:77-88): the message is written
\* after what was written before
send(out, of, n, data) == Append(out, [of |-> of, page |-> n, data |-> data])

\* the server process as qubes.PdfConvert starts it, for a document of the
\* given type and of doc pages
NewServerFor(mimetype, doc) ==
    [pc |-> "recv", mime |-> mimetype, doc |-> doc, data |-> << >>,
     pagenums |-> 0, out |-> << >>,
     publish |-> "none", page |-> 0,
     consume |-> "none", batch_e |-> 0, taken |-> 0,
     batch |-> << >>, unfinished |-> 0,
     conv |-> [n \in Pages |-> "none"],
     dim |-> [n \in Pages |-> << >>],
     rgb |-> {},
     nonzero |-> {}]

NewServer(doc) == NewServerFor("application/pdf", doc)

\* main: recv_b reads stdin up to its end (server.py:91-96, 401-405)
Server_main_recv ==
    /\ server.pc = "recv"
    /\ ReadReturns(stdin)
    /\ server' = [server EXCEPT
                     !.pc = IF StdinBytes = << >> THEN "exit1" ELSE "sanitize",
                     !.data = StdinBytes]
    /\ UNCHANGED << clientVars, runVars, pathVars >>

\* BaseFile.sanitize up to its gather (server.py:262-330): a video or an
\* audio file raises ValueError, which main does not catch; an image has
\* one page; pdfinfo or libreoffice give the page count, or fail;
\* send(self.pagenums); the two tasks are created
Server_sanitize_start ==
    /\ server.pc = "sanitize"
    /\ IF Unsupported(server.mime)
       THEN server' = [server EXCEPT !.pc = "exit1"]
       ELSE \/ /\ PipeHasRoom
               /\ LET n == IF server.mime = "image/" THEN 1 ELSE server.doc
                  IN  server' = [server EXCEPT
                                    !.pc = "gather",
                                    !.pagenums = n,
                                    !.out = send(server.out, "pagenums", 0,
                                                 NumberLine(n)),
                                    !.publish = "create",
                                    !.page = 1,
                                    !.consume = "get"]
            \/ /\ server.mime # "image/"
               /\ server' = [server EXCEPT !.pc = "exit1"]
    /\ UNCHANGED << clientVars, runVars, pathVars >>

\* _publish (server.py:355-372): create the conversion task of the page
Server_publish_create ==
    /\ server.publish = "create"
    /\ server' = [server EXCEPT !.conv[server.page] = "irep",
                                !.publish = "join"]
    /\ UNCHANGED << clientVars, runVars, pathVars >>

\* _publish: await self.batch.join(), then put; the queue has room for
\* pagenums entries
Server_publish_put ==
    /\ server.publish = "join"
    /\ joined(server.unfinished)
    /\ server' = [server EXCEPT
                     !.batch = Append(server.batch, server.page),
                     !.unfinished = server.unfinished + 1,
                     !.page = IF server.page = server.pagenums
                              THEN server.page ELSE server.page + 1,
                     !.publish = IF server.page = server.pagenums
                                 THEN "done" ELSE "create"]
    /\ UNCHANGED << clientVars, runVars, pathVars >>

\* the exit status of a tool of page n: 0, or not 0
Exits(n, tool, returncode, to) ==
    server' = [server EXCEPT
                  !.conv[n] = to,
                  !.nonzero = IF returncode = 0 THEN server.nonzero
                              ELSE server.nonzero \cup
                                      { [page |-> n, tool |-> tool] }]

\* Representation.create_irep (server.py:151-179): pdftocairo; when it
\* exits with a status that is not 0, gm convert is run in its place
Server_convert_irep(n) ==
    /\ server.conv[n] = "irep"
    /\ \/ Exits(n, "pdftocairo", 0, "dim")
       \/ Exits(n, "pdftocairo", 1, "irep_gm")
    /\ UNCHANGED << clientVars, runVars, pathVars >>

Server_convert_irep_gm(n) ==
    /\ server.conv[n] = "irep_gm"
    /\ \/ Exits(n, "convert", 0, "dim")
       \/ Exits(n, "convert", 1, "CalledProcessError")
    /\ UNCHANGED << clientVars, runVars, pathVars >>

\* what gm identify wrote to its stdout, up to the first newline
DimOutput(returncode) == IF returncode = 0 THEN << "1", " ", "1" >> ELSE << >>

\* Representation._dim (server.py:182-195): proc.communicate(); the exit
\* status of gm identify is not looked at
Server_convert_dim(n) ==
    /\ server.conv[n] = "dim"
    /\ \E returncode \in {0, 1} :
          server' = [server EXCEPT
                        !.conv[n] = "convert",
                        !.dim[n] = DimOutput(returncode),
                        !.nonzero = IF returncode = 0 THEN server.nonzero
                                    ELSE server.nonzero \cup
                                            { [page |-> n, tool |-> "identify"] }]
    /\ UNCHANGED << clientVars, runVars, pathVars >>

\* Representation.convert (server.py:126-147): gm convert writes the rgb
\* file of the page and exits with status 0, or exits with another status
Server_convert_exit(n) ==
    /\ server.conv[n] = "convert"
    /\ \/ server' = [server EXCEPT !.conv[n] = "done",
                                   !.rgb = server.rgb \cup {n}]
       \/ Exits(n, "convert", 1, "CalledProcessError")
    /\ UNCHANGED << clientVars, runVars, pathVars >>

\* _consume (server.py:375-398)
Server_consume_get ==
    /\ server.consume = "get"
    /\ server.batch # << >>
    /\ server' = [server EXCEPT !.batch_e = Head(server.batch),
                                !.batch = Tail(server.batch),
                                !.consume = "await"]
    /\ UNCHANGED << clientVars, runVars, pathVars >>

Server_consume_await ==
    /\ server.consume = "await"
    /\ server.conv[server.batch_e] \in {"done", "CalledProcessError"}
    /\ server' = [server EXCEPT
                     !.consume = IF server.conv[server.batch_e] = "done"
                                 THEN "read" ELSE "raised"]
    /\ UNCHANGED << clientVars, runVars, pathVars >>

\* rgb_data = batch_e.rep.final.read_bytes() (server.py:380-383)
Server_consume_read ==
    /\ server.consume = "read"
    /\ server.batch_e \in server.rgb
    /\ server' = [server EXCEPT !.consume = "unlink"]
    /\ UNCHANGED << clientVars, runVars, pathVars >>

\* mutant: the file is left where it is
Server_unlink_kept(files, n) == files

\* unlink(path) of the server (server.py:44-50)
Server_unlink(files, n) == files \ {n}

\* unlink(batch_e.rep.final) (server.py:385-389)
Server_consume_unlink ==
    /\ server.consume = "unlink"
    /\ server' = [server EXCEPT !.rgb = Server_unlink(server.rgb, server.batch_e),
                                !.consume = "send"]
    /\ UNCHANGED << clientVars, runVars, pathVars >>

\* send(batch_e.rep.dim): the dimension line; print adds the newline
Server_consume_send ==
    /\ server.consume = "send"
    /\ PipeHasRoom
    /\ server' = [server EXCEPT
                     !.out = send(server.out, "dim", server.batch_e,
                                  server.dim[server.batch_e] \o << "\n" >>),
                     !.consume = "send_b"]
    /\ UNCHANGED << clientVars, runVars, pathVars >>

\* send_b(rgb_data), then self.batch.task_done()
Server_consume_send_b ==
    /\ server.consume = "send_b"
    /\ PipeHasRoom
    /\ server' = [server EXCEPT
                     !.out = send(server.out, "rgb", server.batch_e,
                                  [i \in 1..RgbSize |-> "byte"]),
                     !.unfinished = task_done(server.unfinished),
                     !.taken = server.taken + 1,
                     !.consume = IF server.taken + 1 = server.pagenums
                                 THEN "done" ELSE "get"]
    /\ UNCHANGED << clientVars, runVars, pathVars >>

\* the gather of sanitize returns, and main with it: exit status 0
Server_sanitize_returns ==
    /\ server.pc = "gather"
    /\ server.publish = "done"
    /\ server.consume = "done"
    /\ server' = [server EXCEPT !.pc = "exit0"]
    /\ UNCHANGED << clientVars, runVars, pathVars >>

\* cancel_task(publish_task) (server.py:332, 364-372): the CancelledError is
\* raised where _publish is suspended; at the put, the task of the page
\* is cancelled; at the join, which is not in the try block, it is not
PublishCancelled(at, convs, n) ==
    IF at = "put"
    THEN [convs EXCEPT ![n] = IF @ \in {"irep", "irep_gm", "dim", "convert"}
                              THEN "cancelled" ELSE @]
    ELSE convs

\* the gather raises CalledProcessError (server.py:331-339).  _publish
\* runs from its put to the next join without a suspension, so that the
\* publish task is at its join, or has returned.  The queue is emptied
\* entry by entry; cancel_task is given the BatchEntry, which has no
\* cancel(): the AttributeError ends the loop at its first entry.  main
\* exits with status 1 either way.
Server_sanitize_raises ==
    /\ server.pc = "gather"
    /\ server.consume = "raised"
    /\ server.publish \in {"join", "done"}
    /\ server' = [server EXCEPT
                     !.pc = "exit1",
                     !.publish = IF server.publish = "done"
                                 THEN "done" ELSE "cancelled",
                     !.conv = PublishCancelled(server.publish, server.conv,
                                               server.page),
                     !.batch = IF server.batch = << >> THEN << >>
                               ELSE Tail(server.batch)]
    /\ UNCHANGED << clientVars, runVars, pathVars >>


(***************************************************************************)
(* One job and its server, when nothing fails: the server follows the      *)
(* protocol, every external tool succeeds, no file operation fails and no  *)
(* SIGINT arrives.  The client reads what the server has written: the      *)
(* page count of the document, and pages of 1 x 1 pixels.  The event loop  *)
(* runs every task that can run, and every subprocess comes to its end.    *)
(***************************************************************************)
InitLive ==
    /\ JobInit
    /\ NoRun
    /\ NoPaths
    /\ \E doc \in 1..MaxPages : server = NewServer(doc)

\* the step of the client raises nothing and cancels nothing
ClientSucceeds ==
    /\ \A t \in Tasks : task'[t] \notin {"raised", "cancelled"}
    /\ \A n \in Pages : conv'[n] \in {"none", "created", "running", "unlink", "done"}
    /\ exc' = exc
    /\ gatherErr' = "none"
    /\ result' \in {"pending", "returned"}

\* the step of the server raises nothing
ServerSucceeds ==
    /\ server'.pc # "exit1"
    /\ server'.consume # "raised"
    /\ \A n \in Pages : server'.conv[n] # "CalledProcessError"
    /\ server'.nonzero = {}

Live_send_read == Job_send_read /\ ClientSucceeds

Live_send_drain == Job_send_drain /\ ClientSucceeds

\* the client reads the line the server wrote: send(self.pagenums)
Live_pagenums_recv ==
    /\ PipeHasData
    /\ \E data \in { NumberLine(server.pagenums) } : Job_pagenums_recv_line(data)
    /\ ClientSucceeds

\* the server writes the dimensions of the page it converted: 1 x 1
Live_publish_dim ==
    /\ PipeHasData
    /\ \E data \in { DimLine(1, 1) } : BaseFile_publish_dim_line(data)
    /\ ClientSucceeds

Live_publish_recv ==
    /\ PipeHasData
    /\ BaseFile_publish_recv
    /\ ClientSucceeds

Live_publish_write == BaseFile_publish_write /\ ClientSucceeds

Live_save_reps_open == BaseFile_save_reps_open /\ ClientSucceeds

Live_save_reps_save == BaseFile_save_reps_save /\ ClientSucceeds

Live_save_reps_unlink == BaseFile_save_reps_unlink /\ ClientSucceeds

Live_consume_await == BaseFile_consume_await /\ ClientSucceeds

Live_convert_spawn(n) == Representation_convert_spawn(n) /\ ClientSucceeds

Live_convert_exit(n) == Representation_convert_exit(n) /\ ClientSucceeds

Live_convert_unlink(n) == Representation_convert_unlink(n) /\ ClientSucceeds

Live_wait_proc == Job_start_wait_proc /\ ClientSucceeds

Live_move == Job_start_move /\ ClientSucceeds

Live_finalize == Job_start_finalize /\ ClientSucceeds

\* the transport child exits when the server has exited, with its status
Live_proc_exits ==
    /\ server.pc \in {"exit0", "exit1"}
    /\ Proc_exits
    /\ proc' = server.pc

Live_server_sanitize_start == Server_sanitize_start /\ ServerSucceeds

Live_server_convert_irep(n) == Server_convert_irep(n) /\ ServerSucceeds

Live_server_convert_dim(n) == Server_convert_dim(n) /\ ServerSucceeds

Live_server_convert_exit(n) == Server_convert_exit(n) /\ ServerSucceeds

Live_server_consume_await == Server_consume_await /\ ServerSucceeds

ClientLive ==
    \/ Job_run_spawn
    \/ Live_send_read
    \/ Live_send_drain
    \/ Live_pagenums_recv
    \/ Job_setup_returns
    \/ Live_publish_dim
    \/ Live_publish_recv
    \/ Live_publish_write
    \/ BaseFile_publish_join
    \/ Live_save_reps_open
    \/ Live_save_reps_save
    \/ Live_save_reps_unlink
    \/ BaseFile_consume_get
    \/ Live_consume_await
    \/ \E n \in Pages : Live_convert_spawn(n)
    \/ \E n \in Pages : Live_convert_exit(n)
    \/ \E n \in Pages : Live_convert_unlink(n)
    \/ BaseFile_sanitize_returns
    \/ Live_wait_proc
    \/ Live_move
    \/ Live_finalize

ServerLive ==
    \/ Server_main_recv
    \/ Live_server_sanitize_start
    \/ Server_publish_create
    \/ Server_publish_put
    \/ \E n \in Pages : Live_server_convert_irep(n)
    \/ \E n \in Pages : Live_server_convert_dim(n)
    \/ \E n \in Pages : Live_server_convert_exit(n)
    \/ Server_consume_get
    \/ Live_server_consume_await
    \/ Server_consume_read
    \/ Server_consume_unlink
    \/ Server_consume_send
    \/ Server_consume_send_b
    \/ Server_sanitize_returns

NextLive ==
    \/ ClientLive
    \/ ServerLive
    \/ Live_proc_exits

\* The event loop of the client runs a task that can run; so does the event
\* loop of the server; a process that has ended is reaped.
FairLive ==
    /\ WF_vars(ClientLive)
    /\ WF_vars(ServerLive)
    /\ WF_vars(Live_proc_exits)

SpecLive == InitLive /\ [][NextLive]_vars /\ FairLive


(***************************************************************************)
(* One job and its server, when the server may fail: any external tool of  *)
(* the server may exit with a status that is not 0, and the document may   *)
(* be of any type.  The client reads what the server has written, or the   *)
(* end of the stream once the server has exited; apart from what it reads, *)
(* no operation of the client fails and no SIGINT arrives.                 *)
(***************************************************************************)
InitPair ==
    /\ JobInit
    /\ params.archive = DefaultArchive
    /\ ~params.in_place
    /\ NoRun
    /\ NoPaths
    /\ \E mimetype \in MimeTypes, doc \in 1..MaxPages :
          /\ mimetype = "application/pdf" \/ doc = 1
          /\ server = NewServerFor(mimetype, doc)

\* the step of the client raises nothing of its own
NoNewFailure ==
    /\ \A t \in Tasks : task'[t] # task[t] => task'[t] \notin {"raised", "cancelled"}
    /\ \A n \in Pages :
          conv'[n] # conv[n] =>
             conv'[n] \in {"none", "created", "running", "unlink", "done"}
    /\ exc' = exc
    /\ gatherErr' = gatherErr
    /\ result' \in {result, "returned"}

\* StreamReader.readline() of the client: the line the server wrote, or
\* nothing at the end of the stream
ServerExited == server.pc \in {"exit0", "exit1"}

Pair_send_read == Job_send_read /\ NoNewFailure

Pair_send_drain == Job_send_drain /\ NoNewFailure

Pair_pagenums_recv ==
    /\ PipeHasData \/ ServerExited
    /\ \E data \in { IF PipeHasData THEN NextMessage.data ELSE << >> } :
          Job_pagenums_recv_line(data)

Pair_publish_dim ==
    /\ PipeHasData \/ ServerExited
    /\ \E data \in { IF PipeHasData THEN NextMessage.data ELSE << >> } :
          BaseFile_publish_dim_line(data)

\* StreamReader.readexactly(size): the payload the server wrote, or
\* nothing at the end of the stream
Pair_publish_recv ==
    /\ PipeHasData \/ ServerExited
    /\ BaseFile_publish_recv
    /\ nbytes' = IF PipeHasData /\ Len(NextMessage.data) >= reps[page].size
                 THEN reps[page].size
                 ELSE IF PipeHasData THEN Len(NextMessage.data) ELSE 0
    /\ task'["publish"] = "write" <=>
          (PipeHasData /\ Len(NextMessage.data) >= reps[page].size)

Pair_publish_write == BaseFile_publish_write /\ NoNewFailure

Pair_save_reps_open == BaseFile_save_reps_open /\ NoNewFailure

Pair_save_reps_save == BaseFile_save_reps_save /\ NoNewFailure

Pair_save_reps_unlink == BaseFile_save_reps_unlink /\ NoNewFailure

Pair_consume_await == BaseFile_consume_await /\ NoNewFailure

Pair_convert_spawn(n) == Representation_convert_spawn(n) /\ NoNewFailure

Pair_convert_exit(n) == Representation_convert_exit(n) /\ NoNewFailure

Pair_convert_unlink(n) == Representation_convert_unlink(n) /\ NoNewFailure

Pair_move == Job_start_move /\ NoNewFailure

Pair_finalize == Job_start_finalize /\ NoNewFailure

\* the transport child exits when the server has exited, with its status
Pair_proc_exits ==
    /\ ServerExited
    /\ Proc_exits
    /\ proc' = server.pc

ClientPair ==
    \/ Job_run_spawn
    \/ Pair_send_read
    \/ Pair_send_drain
    \/ Pair_pagenums_recv
    \/ Job_setup_returns
    \/ Job_setup_raises
    \/ Pair_publish_dim
    \/ Pair_publish_recv
    \/ Pair_publish_write
    \/ BaseFile_publish_join
    \/ Pair_save_reps_open
    \/ Pair_save_reps_save
    \/ Pair_save_reps_unlink
    \/ BaseFile_consume_get
    \/ Pair_consume_await
    \/ \E n \in Pages : Pair_convert_spawn(n)
    \/ \E n \in Pages : Pair_convert_exit(n)
    \/ \E n \in Pages : Pair_convert_unlink(n)
    \/ BaseFile_sanitize_returns
    \/ BaseFile_sanitize_raises
    \/ Cleanup_returns
    \/ Job_start_wait_proc
    \/ Pair_move
    \/ Pair_finalize
    \/ Pair_proc_exits

ServerPair ==
    \/ Server_main_recv
    \/ Server_sanitize_start
    \/ Server_publish_create
    \/ Server_publish_put
    \/ \E n \in Pages : Server_convert_irep(n)
    \/ \E n \in Pages : Server_convert_irep_gm(n)
    \/ \E n \in Pages : Server_convert_dim(n)
    \/ \E n \in Pages : Server_convert_exit(n)
    \/ Server_consume_get
    \/ Server_consume_await
    \/ Server_consume_read
    \/ Server_consume_unlink
    \/ Server_consume_send
    \/ Server_consume_send_b
    \/ Server_sanitize_returns
    \/ Server_sanitize_raises

NextPair == ClientPair \/ ServerPair

SpecPair == InitPair /\ [][NextPair]_vars


(***************************************************************************)
(* The paths a job writes to.  A file name is a sequence of pieces: "."    *)
(* is the dot, every other piece is a run of characters without a dot.     *)
(* A path is Path(directory, name).                                        *)
(***************************************************************************)
MaxNameLen == 5

PairNameLen == 3

Pieces == {"F", " ", ".", "pdf", "trusted"}

\* the names of regular files of at most n pieces: not ".", not ".."
Names(n) ==
    UNION { [1..k -> Pieces] : k \in 1..n } \ { << "." >>, << ".", "." >> }

Dirs == {DocDir, DefaultArchive}

NoPath == << >>

\* str.rfind("."): the position of the last dot, 0 when there is none
rfind_dot(name) ==
    IF \E i \in 1..Len(name) : name[i] = "."
    THEN CHOOSE i \in 1..Len(name) :
            /\ name[i] = "."
            /\ \A k \in (i + 1)..Len(name) : name[k] # "."
    ELSE 0

\* PurePath.suffix: the part from the last dot, unless that dot is the
\* first or the last character of the name
suffix(name) ==
    LET i == rfind_dot(name)
    IN  IF 1 < i /\ i < Len(name) THEN SubSeq(name, i, Len(name)) ELSE << >>

\* mutant: the new suffix is appended to the name
with_suffix_appended(name, new) == name \o new

\* PurePath.with_suffix, on the name of the path
with_suffix(name, new) ==
    IF suffix(name) = << >> THEN name \o new
    ELSE SubSeq(name, 1, Len(name) - Len(suffix(name))) \o new

TrustedSuffix == << ".", "trusted", ".", "pdf" >>

\* the TemporaryDirectory of a job: mkdtemp gives each job its own
TmpDirs == << "qvm-sanitize-a", "qvm-sanitize-b" >>

TmpDir(j) == TmpDirs[j]

\* Representation.__init__ of page 1 (client.py:222-223, 357)
ScratchNames == { with_suffix(<< "1" >>, << ".", x >>) : x \in {"rgb", "png"} }

PathJobs == 1..Len(run_files)

InitPathsOf(fs_) ==
    /\ JobInit
    /\ params = [archive |-> DefaultArchive, batch |-> 1, in_place |-> FALSE]
    /\ NoRun
    /\ NoServer
    /\ run_files = fs_
    /\ job_pdf = [j \in 1..Len(fs_) |-> NoPath]
    /\ job_at = [j \in 1..Len(fs_) |-> "setup"]
    /\ written = {}

\* one input file
InitPath ==
    \E d \in Dirs, n \in Names(MaxNameLen) : InitPathsOf(<< Path(d, n) >>)

\* two input files with distinct paths
InitPaths ==
    \E d1 \in Dirs, d2 \in Dirs, n1 \in Names(PairNameLen), n2 \in Names(PairNameLen) :
       /\ Path(d1, n1) # Path(d2, n2)
       /\ InitPathsOf(<< Path(d1, n1), Path(d2, n2) >>)

\* Job._setup (client.py:511): self.pdf
Paths_setup(j) ==
    /\ job_at[j] = "setup"
    /\ job_pdf' = [job_pdf EXCEPT ![j] =
                      Path(TmpDir(j), with_suffix(run_files[j][2], TrustedSuffix))]
    /\ job_at' = [job_at EXCEPT ![j] = "sanitize"]
    /\ UNCHANGED << clientVars, runVars, server, run_files, written >>

\* BaseFile.sanitize: the scratch files of a page and the temporary PDF,
\* all in the directory of self.pdf (client.py:357, 276-280, 406-416)
Paths_sanitize(j) ==
    /\ job_at[j] = "sanitize"
    /\ written' = written
          \cup { [job |-> j, path |-> Path(job_pdf[j][1], n), kind |-> "scratch"] :
                   n \in ScratchNames }
          \cup { [job |-> j, path |-> job_pdf[j], kind |-> "scratch"] }
    /\ job_at' = [job_at EXCEPT ![j] = "move"]
    /\ UNCHANGED << clientVars, runVars, server, run_files, job_pdf >>

\* Job._start (client.py:523-528): shutil.move to the directory of the input
Paths_move(j) ==
    /\ job_at[j] = "move"
    /\ written' = written \cup
          { [job |-> j, path |-> Path(run_files[j][1], job_pdf[j][2]),
             kind |-> "trusted"] }
    /\ job_at' = [job_at EXCEPT ![j] = "archive"]
    /\ UNCHANGED << clientVars, runVars, server, run_files, job_pdf >>

\* Job._archive (client.py:575-578)
Paths_archive(j) ==
    /\ job_at[j] = "archive"
    /\ written' = written \cup
          { [job |-> j, path |-> Path(params.archive, run_files[j][2]),
             kind |-> "archive"] }
    /\ job_at' = [job_at EXCEPT ![j] = "done"]
    /\ UNCHANGED << clientVars, runVars, server, run_files, job_pdf >>

NextPaths ==
    \/ \E j \in PathJobs : Paths_setup(j)
    \/ \E j \in PathJobs : Paths_sanitize(j)
    \/ \E j \in PathJobs : Paths_move(j)
    \/ \E j \in PathJobs : Paths_archive(j)

SpecPath == InitPath /\ [][NextPaths]_vars

SpecPaths == InitPaths /\ [][NextPaths]_vars


(***************************************************************************)
(* Properties.                                                             *)
(***************************************************************************)
Failed == result = "raised"

Cancelled == result = "cancelled"

Done == result = "returned"

ArchivePath == Path(params.archive, DocName)

\* the pages 1..n in order
UpTo(n) == [i \in 1..n |-> i]

\* C1: a job that ends FAILED or CANCELLED leaves the original at its path,
\* neither renamed into the archive nor unlinked.
C1_OriginalUntouchedOnFailure ==
    (Failed \/ Cancelled) =>
        /\ fs[OriginalPath] = Original
        /\ ArchivePath # OriginalPath => fs[ArchivePath] = Absent

\* C2: a job that ends FAILED or CANCELLED leaves no trusted PDF at the
\* final output path.
C2_NoTrustedPdfOnFailure ==
    (Failed \/ Cancelled) => fs[TrustedPath] = Absent


\* C3: a job that ends DONE with page count P leaves a trusted PDF of exactly
\* P pages at the final path: every page 1..P was received, converted and
\* appended exactly once, whatever the batch size.
C3_ExactlyPPages ==
    Done =>
        /\ fs[TrustedPath].kind = "pdf"
        /\ Len(fs[TrustedPath].pages) = pagenums
        /\ \A n \in 1..pagenums :
              /\ Cardinality({ i \in 1..Len(fs[TrustedPath].pages) :
                                  fs[TrustedPath].pages[i] = n }) = 1
              /\ conv[n] = "done"

C3_Witness ==
    /\ Done
    /\ pagenums = 3
    /\ params.batch = 2
    /\ Len(fs[TrustedPath].pages) = 3

\* C4 as claimed: after DONE no file remains at the original path; in archive
\* mode the original content is at <archive>/<basename>, in in-place mode
\* nothing is archived.
C4_Original ==
    Done =>
        /\ fs[OriginalPath] = Absent
        /\ ~params.in_place => fs[ArchivePath] = Original
        /\ params.in_place => fs[ArchivePath] = Absent /\ dirs = {DocDir}

\* C4 as amended: as C4, except that in archive mode the original stays at
\* its path when <archive>/<basename> is that very path (the rename is then
\* a no-op).
C4_ArchivedOrRemoved ==
    Done =>
        IF params.in_place
        THEN /\ fs[OriginalPath] = Absent
             /\ dirs = {DocDir}
             /\ ArchivePath # OriginalPath => fs[ArchivePath] = Absent
        ELSE /\ fs[ArchivePath] = Original
             /\ params.archive \in dirs
             /\ ArchivePath # OriginalPath => fs[OriginalPath] = Absent

C4_Witness ==
    /\ Done
    /\ ~params.in_place
    /\ ArchivePath # OriginalPath
    /\ fs[ArchivePath] = Original
    /\ fs[OriginalPath] = Absent

\* C5: a step changes the original (or writes its archive copy) only in the
\* last step of _start, when the complete trusted PDF (all P pages) is
\* already at its final path.
C5_OriginalModifiedLast ==
    [][ (fs'[OriginalPath] # fs[OriginalPath] \/ fs'[ArchivePath] # fs[ArchivePath])
          => /\ runPc = "finalize"
             /\ pdf = Absent
             /\ fs[TrustedPath] = Pdf(UpTo(pagenums)) ]_vars

C5_Witness ==
    /\ fs[OriginalPath] = Absent
    /\ pagenums = 2
    /\ fs[TrustedPath] = Pdf(UpTo(2))

\* C6: a received width or height outside 1..10000 ends _publish with
\* DimensionError; no payload is read for the page, no scratch file is
\* written for it, no conversion is created for it, the job does not end
\* DONE; and every scratch file and every running conversion belongs to a
\* page whose dimensions are within 1..10000.
InRange(w, h) == w \in 1..10000 /\ h \in 1..10000

C6_BadDimensionsRejected ==
    /\ (task["publish"] # "none" /\ untrusted.ok /\ ~InRange(untrusted.w, untrusted.h))
          => /\ task["publish"] = "raised"
             /\ exc["publish"] = "DimensionError"
             /\ nbytes = 0
             /\ reps[page] = NoDim
             /\ page \notin rgb
             /\ conv[page] = "none"
             /\ ~Done
    /\ \A n \in Pages :
          (ConvPending(n) \/ n \in rgb) => InRange(reps[n].width, reps[n].height)

C6_Witness ==
    /\ untrusted.ok
    /\ untrusted.w = 20000
    /\ Failed
    /\ error = "DimensionError"

\* C7: the page count is accepted exactly when the line parses to an integer
\* in 1..10000; otherwise the page task raises (PageError for an integer out
\* of range), no dimension line is ever read, no scratch file is created and
\* the job does not end DONE.
C7_PagenumsAccepted ==
    task["page"] \in {"done", "raised"} =>
        /\ task["page"] = "done" <=>
              (untrusted_pagenums.ok /\ untrusted_pagenums.val \in 1..10000)
        /\ task["page"] = "done" => pagenums = untrusted_pagenums.val
        /\ task["page"] = "raised" =>
              /\ exc["page"] = IF untrusted_pagenums.ok THEN "PageError"
                               ELSE "QrexecError"
              /\ pagenums = 0
              /\ task["publish"] = "none"
              /\ untrusted.err = "none" /\ ~untrusted.ok
              /\ rgb = {}
              /\ ~Done

C7_Witness ==
    /\ untrusted_pagenums.ok
    /\ untrusted_pagenums.val = 10001
    /\ Failed
    /\ error = "PageError"

\* C8: once the payload of a page has been received, exactly w*h*3 bytes
\* were taken off the stream for it, and that is still so when the next
\* dimension line is awaited; when the stream ends earlier _publish raises
\* QrexecError, the page is neither written to scratch nor converted and the
\* job does not end DONE.
PayloadSize(n) == reps[n].width * reps[n].height * 3

C8_ExactPayload ==
    /\ task["publish"] \in {"write", "join", "open", "save", "unlink"}
          => nbytes = PayloadSize(page)
    /\ (task["publish"] = "dim" /\ pages # << >>)
          => nbytes = PayloadSize(page - 1)
    /\ (task["publish"] = "raised" /\ exc["publish"] = "QrexecError"
        /\ reps[page] # NoDim)
          => /\ nbytes < PayloadSize(page)
             /\ page \notin rgb
             /\ conv[page] = "none"
             /\ ~Done

C8_Witness ==
    /\ task["publish"] = "raised"
    /\ page = 2
    /\ reps[2] # NoDim
    /\ nbytes = PayloadSize(2) - 1
    /\ Failed
    /\ error = "QrexecError"

\* C9: the temporary PDF always holds the pages 1..k in ascending order, the
\* queue holds pages in ascending order, and the trusted PDF of a DONE job
\* is the pages 1..P in order, whatever order the conversions finished in.
C9_PageOrder ==
    /\ pdf.kind = "pdf" => \A i \in 1..Len(pdf.pages) : pdf.pages[i] = i
    /\ \A i \in 1..Len(batch) : \A j \in 1..Len(batch) :
          i < j => batch[i] < batch[j]
    /\ Done => fs[TrustedPath] = Pdf(UpTo(pagenums))

C9_Witness ==
    /\ Done
    /\ reordered
    /\ pagenums = 3
    /\ fs[TrustedPath] = Pdf(UpTo(3))

\* C10 as claimed: the page count is not being read, and has not been read,
\* before the upload has finished and the write side is closed.
C10_Original ==
    task["page"] \in {"readline", "done", "raised"} =>
        (task["send"] = "done" /\ stdin = "closed")

\* C10 as amended: the read of the page count is issued together with the
\* upload, but Job._setup does not return, and no page is read, before the
\* upload has finished and the write side is closed.
C10_PipelineAfterUpload ==
    (runPc \in {"sanitize", "wait_proc", "move", "finalize"} \/ task["publish"] # "none")
        => (task["send"] = "done" /\ stdin = "closed" /\ task["page"] = "done")

C10_Witness ==
    /\ task["publish"] = "recv"
    /\ stdin = "closed"

\* the transport child was spawned
Spawned == proc # "none"

\* C11: when a job ends FAILED through an error raised after the transport
\* child was spawned, the child is no longer running: it has exited or has
\* been terminated.
C11_ChildTerminatedOnFailure ==
    (Failed /\ Spawned) => proc # "running"

\* C12: when a job whose transport child was spawned ends CANCELLED, the
\* child is no longer running.
C12_ChildTerminatedOnCancel ==
    (Cancelled /\ Spawned) => proc # "running"

\* C13: when a job has ended FAILED or CANCELLED, none of its tasks is
\* pending: not the upload, the page count, the publish or the consume task,
\* nor any conversion.
C13_NoPendingTaskAfterFailure ==
    (Failed \/ Cancelled) =>
        /\ \A t \in Tasks : ~Pending(t)
        /\ \A n \in Pages : ~ConvPending(n)

\* C14: when Job.run has finished, with any outcome, the temporary directory
\* does not exist, and neither does any .rgb file, .png file or the
\* temporary trusted PDF; and nothing re-creates them afterwards.
C14_NoScratchLeft ==
    runPc = "done" =>
        /\ ~tmpdir
        /\ rgb = {}
        /\ png = {}
        /\ pdf = Absent

\* a job cancelled during the page pipeline, after a page was written to
\* scratch and while its conversion was running
C14_Witness ==
    /\ runPc = "done"
    /\ Cancelled
    /\ \E n \in Pages : conv[n] = "cancelled"
    /\ ~tmpdir

\* no file of the user has been created, moved or removed
FilesUntouched ==
    /\ fs = [p \in Paths |-> IF p = OriginalPath THEN Original ELSE Absent]
    /\ dirs = {DocDir}

\* the child's stdout ended inside the payload of the current page
ShortPayload ==
    task["publish"] = "raised" /\ reps[page] # NoDim /\ nbytes < reps[page].size

\* the child's stdout ended where a line or a payload was expected
StdoutClosedEarly ==
    \/ untrusted_pagenums.err = "EOFError"
    \/ untrusted.err = "EOFError"
    \/ ShortPayload

NonZeroExit == proc \in {"exit1", "sigint"}

\* C19: when the child's stdout ends early the reading task raises
\* QrexecError, and when the child exits with a non-zero status wait_proc
\* raises; either way the job never ends DONE, no trusted PDF is moved into
\* place, the original is untouched, and the job ends FAILED (CANCELLED when
\* a SIGINT was involved), also when all pages were received and assembled.
C19_TransportFailureIsFatal ==
    /\ untrusted_pagenums.err = "EOFError"
          => task["page"] = "raised" /\ exc["page"] = "QrexecError"
    /\ (untrusted.err = "EOFError" \/ ShortPayload)
          => task["publish"] = "raised" /\ exc["publish"] = "QrexecError"
    /\ (StdoutClosedEarly \/ NonZeroExit)
          => /\ ~Done
             /\ runPc \notin {"move", "finalize"}
             /\ FilesUntouched
             /\ runPc = "done" => (Failed \/ Cancelled)
             /\ (runPc = "done" /\ sigint = "none") => (Failed /\ status = "FAIL")

\* the child exits with status 1 after both pages were received and
\* assembled, and the job fails
C19_Witness ==
    /\ proc = "exit1"
    /\ pagenums = 2
    /\ task["publish"] = "done"
    /\ task["consume"] = "done"
    /\ Failed
    /\ error = "CalledProcessError"

\* C18: a job that ends FAILED has put exactly one entry into ERROR_LOGS, a
\* job that ends DONE or CANCELLED has put none.
C18_OneLogEntryPerFailure ==
    /\ Failed => error_logs = 1
    /\ (Done \/ Cancelled) => error_logs = 0

\* C16: a job that had not finished when the SIGINT handler cancelled its
\* task ends CANCELLED: not DONE, and not FAILED.
C16_SigintCancels ==
    (sigint = "handled" /\ runPc = "done") => Cancelled

\* the task of job i ends in this step, and not by returning
JobFails(i) ==
    /\ jobs[i].pc # "done"
    /\ jobs'[i].pc = "done"
    /\ jobs'[i].out # "None"

\* C15: a step in which one job fails changes no other job and requests no
\* cancellation; without a SIGINT no job is ever cancelled; and run() does
\* not go on to its report before every job has come to its own outcome.
C15_SiblingsUnaffected ==
    [][ /\ \A i \in JobIds :
              JobFails(i) => /\ \A j \in JobIds \ {i} : jobs'[j] = jobs[j]
                             /\ must_cancel' \subseteq must_cancel
        /\ signals' = 0 =>
              /\ must_cancel' = {}
              /\ \A j \in JobIds : jobs'[j].out # "CancelledError"
        /\ mainPc' \in {"report", "exit"} =>
              \A j \in JobIds : jobs'[j].pc = "done" ]_vars

\* the first job failed, and its sibling went on to DONE
C15_Witness ==
    /\ mainPc = "exit"
    /\ Len(jobs) = 2
    /\ signals = 0
    /\ jobs[1].status = "FAIL"
    /\ jobs[2].status = "DONE"

\* C17: the exit status is 0 exactly when every job ended DONE (or there
\* was no file), and 1 exactly when some job ended otherwise; the number
\* reported as sanitized is the number of jobs that ended DONE.
C17_ExitCode ==
    mainPc = "exit" =>
        /\ exit_code \in {0, 1}
        /\ exit_code = 0 <=> \A j \in JobIds : jobs[j].status = "DONE"
        /\ exit_code = 1 <=> \E j \in JobIds : jobs[j].out # "None"
        /\ completed = Cardinality({ j \in JobIds : jobs[j].status = "DONE" })

C17_Witness ==
    /\ mainPc = "exit"
    /\ Len(jobs) = 2
    /\ exit_code = 1
    /\ completed = 1

\* C20: with a server that follows the protocol, tools that succeed and no
\* cancellation, the job eventually ends DONE, for every page count and
\* batch size: no task of the client or of the server waits for ever.
C20_EventuallyDone == <>Done

\* a document of three pages, converted in batches of two
C20_Witness ==
    /\ Done
    /\ server.pc = "exit0"
    /\ server.doc = 3
    /\ params.batch = 2
    /\ fs[TrustedPath] = Pdf(UpTo(3))

\* pages whose payload was received (their conversion task was created)
ReceivedPages == { n \in Pages : conv[n] # "none" }

\* pages appended to the temporary trusted PDF
AssembledPages == IF pdf = Absent THEN {} ELSE Range(pdf.pages)

\* while BaseFile.sanitize runs, the temporary PDF is where _save_reps put it
Unassembled == ReceivedPages \ AssembledPages

\* _publish is in rep.receive: it reads, or is about to read, a page
Receiving == task["publish"] \in {"dim", "recv", "write"}

\* C25: at most B = --batch pages are received and not yet appended to the
\* trusted PDF, so at most B conversion tasks are pending and at most B
\* pages have scratch files; the receiver reads a page only while fewer
\* than B earlier pages are unassembled.
C25_BatchBound ==
    /\ runPc \in {"sanitize", "cleanup"} =>
          Cardinality(Unassembled) <= params.batch
    /\ Cardinality({ n \in Pages : ConvPending(n) }) <= params.batch
    /\ Cardinality(rgb \cup png) <= params.batch
    /\ Len(batch) <= params.batch
    /\ Receiving => Cardinality(Unassembled) < params.batch

\* three pages in batches of two: the first batch is full and waits to be
\* assembled, the third page has not been read
C25_Witness ==
    /\ runPc = "sanitize"
    /\ pagenums = 3
    /\ params.batch = 2
    /\ Unassembled = {1, 2}
    /\ task["publish"] = "join"
    /\ rgb \cup png = {1, 2}

\* the pages a + 1 .. b, in order
Contiguous(a, b) == [i \in 1..(b - a) |-> a + i]

\* the last page of the batches before the batch of page pg
BatchStart(pg) == ((pg - 1) \div params.batch) * params.batch

PdfPages == IF pdf = Absent THEN << >> ELSE pdf.pages

\* _publish is at the end of a batch: join, then _save_reps
Assembling == task["publish"] \in {"join", "open", "save", "unlink"}

C29_Batches ==
    runPc = "sanitize" =>
       /\ Assembling =>
             /\ page % params.batch = 0 \/ page = pagenums
             /\ pages = Contiguous(BatchStart(page), page)
       /\ task["publish"] \in {"join", "open", "save"} =>
             PdfPages = Contiguous(0, BatchStart(page))
       /\ Receiving /\ page >= 1 =>
             /\ pages = Contiguous(BatchStart(page), page - 1)
             /\ PdfPages = Contiguous(0, BatchStart(page))

SaveStep == task["publish"] = "save" /\ task'["publish"] = "unlink"

UnlinkStep ==
    /\ task["publish"] = "unlink"
    /\ task'["publish"] \in {"dim", "done", "raised"}
    /\ exc'["publish"] # "OSError"

C29_Steps ==
    /\ SaveStep /\ exc'["publish"] = "none" =>
          /\ pdf' = Pdf(PdfPages \o pages)
          /\ pdf = Absent <=> BatchStart(page) = 0
    /\ SaveStep /\ exc'["publish"] # "none" => pdf' = pdf
    /\ UnlinkStep => png' \cap Range(pages) = {}

\* C29: the assembler runs exactly at the pages n with n mod B = 0 and at
\* n = P, each time on the contiguous pages received since its previous
\* run; the first run creates the temporary trusted PDF and every later run
\* appends to it; after the save, whether it succeeded or failed, the PNGs
\* of the batch are unlinked.  (A run that cannot open a PNG ends before
\* the save; a cancellation or a failing unlink ends the finally block.)
C29_Assembler == []C29_Batches /\ [][C29_Steps]_vars

\* three pages in batches of two: the second run has appended page 3 to the
\* PDF of pages 1 and 2, and has not yet unlinked 3.png
C29_Witness ==
    /\ runPc = "sanitize"
    /\ params.batch = 2
    /\ pagenums = 3
    /\ task["publish"] = "unlink"
    /\ exc["publish"] = "none"
    /\ pages = << 3 >>
    /\ pdf = Pdf(<< 1, 2, 3 >>)
    /\ 3 \in png

\* Representation.convert of page n raised: gm convert could not be
\* started, exited with a non-zero status, or the RGB file was not unlinked
ConvFailed(n) == conv[n] \in {"OSError", "RepresentationError"}

C30_NoTrustedPdf ==
    (\E n \in Pages : ConvFailed(n)) =>
       /\ ~Done
       /\ fs[TrustedPath] = Absent
       /\ runPc \notin {"wait_proc", "move", "finalize"}
       /\ (runPc = "done" /\ sigint = "none") => Failed

C30_NoRetry ==
    \A n \in Pages : ConvFailed(n) => conv'[n] = conv[n]

\* C30: when the re-encode of one page fails, the job does not end DONE and
\* no trusted PDF is produced, whatever _publish is doing and whatever was
\* appended to the temporary PDF before; the job ends FAILED (CANCELLED
\* after a SIGINT); the conversion of the page is not tried again.
C30_ReencodeFailureIsFatal == []C30_NoTrustedPdf /\ [][C30_NoRetry]_vars

\* batches of two: pages 1 and 2 were appended to the temporary PDF, the
\* re-encode of page 3 failed, and the job ended FAILED on it
C30_Witness ==
    /\ Failed
    /\ error = "RepresentationError"
    /\ params.batch = 2
    /\ pagenums = 3
    /\ conv = << "done", "done", "RepresentationError" >>
    /\ exc["consume"] = "RepresentationError"

\* the final extension of a name: what follows the last dot, with that
\* dot, when the dot is neither the first nor the last character
FinalExtension(name) ==
    IF \E i \in 2..(Len(name) - 1) :
          name[i] = "." /\ \A k \in (i + 1)..Len(name) : name[k] # "."
    THEN LET i == CHOOSE i \in 2..(Len(name) - 1) :
                     name[i] = "." /\ \A k \in (i + 1)..Len(name) : name[k] # "."
         IN  SubSeq(name, i, Len(name))
    ELSE << >>

WithoutFinalExtension(name) ==
    SubSeq(name, 1, Len(name) - Len(FinalExtension(name)))

TrustedOutputs(j) == { w.path : w \in { x \in written : x.job = j /\ x.kind = "trusted" } }

\* C26: the trusted output path is the path of the input with only its
\* final extension replaced by ".trusted.pdf", in the directory of the
\* input: "F.trusted.pdf" gives "F.trusted.trusted.pdf", a name with spaces
\* keeps them; the output path is never the path of the input.
C26_TrustedPath ==
    \A j \in PathJobs : \A out \in TrustedOutputs(j) :
       LET in == run_files[j]
       IN  /\ out[1] = in[1]
           /\ out[2] = WithoutFinalExtension(in[2]) \o TrustedSuffix
           /\ out # in
           /\ in[2] = << "F", ".", "trusted", ".", "pdf" >> =>
                 out[2] = << "F", ".", "trusted", ".", "trusted", ".", "pdf" >>
           /\ in[2] = << "F", " ", "F", ".", "pdf" >> =>
                 out[2] = << "F", " ", "F", ".", "trusted", ".", "pdf" >>

\* the converter ran on its own output F.trusted.pdf
C26_Witness ==
    /\ Len(run_files) = 1
    /\ run_files[1] = Path(DocDir, << "F", ".", "trusted", ".", "pdf" >>)
    /\ TrustedOutputs(1) =
          { Path(DocDir, << "F", ".", "trusted", ".", "trusted", ".", "pdf" >>) }

\* the paths a job writes outside the archive directory
OwnWrites(j) ==
    { w.path : w \in { x \in written : x.job = j /\ x.kind # "archive" } }

\* C27: two jobs of one run with distinct input paths never write the same
\* scratch file or the same trusted output path.
C27_NoSharedWrites ==
    \A i \in PathJobs, j \in PathJobs :
       (i # j /\ run_files[i] # run_files[j]) => OwnWrites(i) \cap OwnWrites(j) = {}

\* C21: the server writes the page count line once and first; then, for
\* n = 1..N in ascending order, the dimension line of page n immediately
\* followed by the RGB bytes of page n: nothing is interleaved, repeated or
\* skipped.
C21_OutputOrder ==
    server.pc # "none" =>
       /\ Len(server.out) <= 1 + 2 * server.pagenums
       /\ server.pc = "exit0" => Len(server.out) = 1 + 2 * server.pagenums
       /\ \A i \in 1..Len(server.out) :
             LET m == server.out[i]
             IN  IF i = 1
                 THEN m.of = "pagenums" /\ m.data = NumberLine(server.pagenums)
                 ELSE /\ m.page = i \div 2
                      /\ m.page \in 1..server.pagenums
                      /\ m.of = IF i % 2 = 0 THEN "dim" ELSE "rgb"

\* the server has written a document of three pages and exited
C21_Witness ==
    /\ server.pc = "exit0"
    /\ server.pagenums = 3
    /\ Len(server.out) = 7
    /\ server.out[7] = [of |-> "rgb", page |-> 3, data |-> [i \in 1..RgbSize |-> "byte"]]

\* the server has written nothing before the end of its stdin, and what it
\* read is the document
C22_NothingBeforeEof ==
    /\ server.out # << >> => stdin = "closed"
    /\ server.pc \notin {"none", "recv"} => stdin = "closed" /\ server.data = DocBytes
    /\ stdin = "closed" => StdinBytes = DocBytes /\ task["send"] = "done"

\* the client closes its write side once, and after the bytes are written
C22_ClosedOnce ==
    /\ stdin = "closed" => stdin' = "closed"
    /\ (stdin # "closed" /\ stdin' = "closed") =>
          stdin = "written" /\ task["send"] = "drain"

\* C22: the client sends the bytes of the document with no length prefix
\* and closes its write side once, only after all bytes are written; the
\* server writes nothing to its stdout until it has read its stdin to the
\* end.
C22_Upload == []C22_NothingBeforeEof /\ [][C22_ClosedOnce]_vars

\* the server has read the document and written the page count
C22_Witness ==
    /\ stdin = "closed"
    /\ server.data = DocBytes
    /\ Len(server.out) = 1

\* C23: a non-zero exit of any external subprocess used for a page
\* (pdftocairo, identify, convert) is fatal: the page is not emitted, nor
\* any page after it, and the server exits non-zero.
C23_NonZeroExitIsFatal ==
    server.pc # "none" =>
       \A x \in server.nonzero :
          /\ \A i \in 1..Len(server.out) : server.out[i].page < x.page
          /\ server.pc # "exit0"

\* C24: when a page conversion fails on the server, every outstanding
\* conversion task, the one the producer has created but not yet enqueued
\* included, is cancelled and the queue is drained before the server
\* exits non-zero.
C24_AllCancelled ==
    (server.pc = "exit1" /\ server.consume = "raised") =>
       /\ \A n \in Pages : server.conv[n] \notin {"irep", "irep_gm", "dim", "convert"}
       /\ server.batch = << >>

\* C28: when the uploaded bytes are an audio or a video file, the server
\* writes nothing, not even a page count, and exits non-zero; the client
\* fails the file at the read of the page count.
C28_UnsupportedType ==
    (server.pc # "none" /\ server.mime \in {"audio/", "video/"}) =>
       /\ server.out = << >>
       /\ server.pc \in {"recv", "sanitize", "exit1"}
       /\ task["page"] \in {"none", "readline", "raised"}
       /\ task["page"] = "raised" => exc["page"] = "QrexecError"
       /\ task["publish"] = "none"
       /\ result # "pending" =>
             result = "raised" /\ error = "QrexecError" /\ status = "FAIL"

\* an audio file was uploaded: the server has exited with status 1 and the
\* job has failed at the page count
C28_Witness ==
    /\ server.pc = "exit1"
    /\ server.mime = "audio/"
    /\ server.out = << >>
    /\ exc["page"] = "QrexecError"
    /\ result = "raised"
    /\ status = "FAIL"

\* the consumer has taken page n off the queue and marked it as done
Dequeued(n) ==
    /\ n \notin Range(batch)
    /\ ~(task["consume"] = "await" /\ batch_e = n)

\* C31: a batch is assembled only after the conversion of every page of
\* the batch has completed successfully and has been dequeued by the
\* consumer: no PNG is opened while its conversion is running, was
\* cancelled or has failed.
C31_AssembledAfterConversion ==
    task["publish"] \in {"open", "save", "unlink"} =>
       \A n \in Range(pages) : conv[n] = "done" /\ Dequeued(n) /\ n \in png

\* the PNGs of a batch of two pages are about to be opened
C31_Witness ==
    /\ task["publish"] = "open"
    /\ pages = << 1, 2 >>
    /\ conv[1] = "done"
    /\ conv[2] = "done"

\* C39: BaseFile._save_reps is never called with an empty list of pages,
\* so that images[0] exists when the save is issued.
C39_NonEmptyBatch ==
    /\ Assembling => pages # << >>
    /\ task["publish"] = "save" => Head(pages) \in png

\* the last batch of a document of three pages in batches of two
C39_Witness ==
    /\ task["publish"] = "save"
    /\ pagenums = 3
    /\ params.batch = 2
    /\ pages = << 3 >>

\* BaseFile.sanitize was entered, and has returned or raised
SanitizeEnded ==
    /\ task["publish"] # "none"
    /\ runPc \in {"wait_proc", "move", "finalize", "done"}

\* C32: when BaseFile.sanitize returns or raises, on success, on an error
\* in either task or on cancellation, the publish and the consume task are
\* finished, the queue is empty, and every conversion task ever created
\* has completed or was cancelled.
C32_PipelineEnded ==
    SanitizeEnded =>
       /\ ~Pending("publish")
       /\ ~Pending("consume")
       /\ batch = << >>
       /\ \A n \in Pages : ~ConvPending(n)

\* a conversion failed: the consumer raised, the publisher was cancelled
\* and so was the conversion that was still queued
C32_Witness ==
    /\ runPc = "done"
    /\ status = "FAIL"
    /\ task["consume"] = "raised"
    /\ task["publish"] = "cancelled"
    /\ \E n \in Pages : conv[n] = "cancelled"

\* the conversion tasks of the server that have not finished
ServerConverting ==
    { n \in Pages : server.conv[n] \in {"irep", "irep_gm", "dim", "convert"} }

\* the pages of which the server has written the dimension line and the bytes
ServerSentPages ==
    { n \in Pages :
        \E i \in 1..Len(server.out) :
           server.out[i].of = "rgb" /\ server.out[i].page = n }

\* C33: on the server the producer waits until every page enqueued before
\* has been fully sent before it enqueues the next one: the queue never
\* holds more than one entry, and at most two conversion tasks are
\* unfinished at any time.
C33_OnePageAtATime ==
    server.pc # "none" =>
       /\ Len(server.batch) <= 1
       /\ Cardinality(ServerConverting) <= 2
       /\ \A n \in Range(server.batch) : ServerSentPages = 1..(n - 1)
       /\ \A n \in ServerConverting : 1..(n - 2) \subseteq ServerSentPages

\* page 1 is sent, page 2 is queued and the conversions of pages 2 and 3
\* are running
C33_Witness ==
    /\ server.pc = "gather"
    /\ server.batch = << 2 >>
    /\ ServerConverting = {2, 3}
    /\ ServerSentPages = {1}

\* the page pipeline of the client has started
PipelineStarted == task["publish"] # "none" \/ task["consume"] # "none"

\* C34: the page pipeline of the client starts only after the upload has
\* completed with the write side closed and a valid page count has been
\* received: before that no dimension line is read and no scratch file of
\* a page is created, and a failed upload keeps the pipeline from starting.
C34_PipelineAfterSetup ==
    /\ PipelineStarted =>
          /\ task["send"] = "done"
          /\ stdin = "closed"
          /\ task["page"] = "done"
          /\ ValidPagenums(pagenums)
    /\ ~PipelineStarted =>
          /\ rgb = {}
          /\ png = {}
          /\ pdf = Absent
          /\ \A n \in Pages : reps[n] = NoDim /\ conv[n] = "none"
          /\ ~untrusted.ok /\ untrusted.err = "none"
    /\ task["send"] \in {"raised", "cancelled"} => ~PipelineStarted

\* the pipeline has received the first of two pages
C34_Witness ==
    /\ task["publish"] = "dim"
    /\ page = 2
    /\ pagenums = 2
    /\ rgb = {1}
    /\ stdin = "closed"

\* the pages of which the server has written something
ServerEmittedPages ==
    { n \in Pages : \E i \in 1..Len(server.out) : server.out[i].page = n }

\* C35 as stated: for each page the consumer of the server awaits the
\* conversion, emits the dimension line and the RGB bytes, and only then
\* unlinks the RGB file of the page.
C35_UnlinkAfterSend ==
    server.pc # "none" =>
       \A n \in Pages :
          (server.conv[n] = "done" /\ n \notin server.rgb) => n \in ServerSentPages

\* C35: for each page the consumer of the server awaits the conversion,
\* reads the RGB bytes, unlinks the RGB file of the page, and only then
\* emits the dimension line and the RGB bytes.
C35_UnlinkBeforeSend ==
    server.pc # "none" =>
       /\ \A n \in server.rgb : server.conv[n] = "done" /\ n \notin ServerEmittedPages
       /\ \A n \in ServerEmittedPages :
             server.conv[n] = "done" /\ n \notin server.rgb

\* the dimension line of page 1 is written, its RGB file is unlinked and
\* its bytes are still to be written
C35_Witness ==
    /\ server.consume = "send_b"
    /\ server.batch_e = 1
    /\ 1 \notin server.rgb
    /\ ServerEmittedPages = {1}
    /\ ServerSentPages = {}

\* C36: a dimension line that is malformed (not two integers separated by
\* a space) or not ASCII is reported as a receive error, the same kind as
\* an end of stream; DimensionError is raised only for well-formed
\* integers outside 1..MAX.
C36_MalformedIsReceiveError ==
    /\ (~untrusted.ok /\ untrusted.err # "none") => exc["publish"] = "QrexecError"
    /\ exc["publish"] = "DimensionError" =>
          untrusted.ok /\ ~ValidDims(untrusted.w, untrusted.h)

\* a non-empty run of ASCII decimal digits
IsUnsigned(s) == s # << >> /\ \A i \in 1..Len(s) : s[i] \in Digits

\* two unsigned integers separated by exactly one space, and the newline
IsCanonicalDimLine(data) ==
    \E i \in 1..Len(data) :
       LET end == IF data[Len(data)] = "\n" THEN Len(data) - 1 ELSE Len(data)
       IN  /\ data[i] = " "
           /\ IsUnsigned(SubSeq(data, 1, i - 1))
           /\ IsUnsigned(SubSeq(data, i + 1, end))

\* C37: the client accepts a dimension line only if it consists of two
\* unsigned ASCII decimal integers separated by exactly one ASCII space: a
\* line with a sign, with more than one space or with other padding around
\* a number is rejected.
C37_OnlyCanonicalAccepted ==
    (untrusted.ok /\ ValidDims(untrusted.w, untrusted.h)) =>
       IsCanonicalDimLine(untrusted.data)

\* Job.run ends in its except clause for an error: the job ends without
\* DONE, and not by a cancellation of its task
ErrorEndsJob ==
    /\ runPc # "done"
    /\ runPc' = "done"
    /\ proc # "none"
    /\ status' # "DONE"
    /\ ~(sigint # "handled" /\ sigint' = "handled")

C38_Report ==
    ErrorEndsJob =>
       IF proc = "sigint"
       THEN /\ status' = "CANCELLED"
            /\ result' = "cancelled"
            /\ error_logs' = error_logs
       ELSE /\ status' = "FAIL"
            /\ result' = "raised"
            /\ error_logs' = error_logs + 1

\* C38: if a job hits an error while its transport child has already
\* exited on SIGINT, the job is reported CANCELLED, not FAILED, and no
\* error line is logged for it; with any other state of the child the same
\* error is reported FAILED with one error line.
C38_SigintRace == [][C38_Report]_vars

\* the child exited on SIGINT, the read of the page count failed for it,
\* and the job ended CANCELLED before the handler cancelled anything
C38_Witness ==
    /\ runPc = "done"
    /\ proc = "sigint"
    /\ sigint = "sent"
    /\ gatherErr = "QrexecError"
    /\ status = "CANCELLED"
    /\ error_logs = 0

====
